---- MODULE Spec2Model ----
(***************************************************************************)
(* A model of bigr_utils' project_samples.py: the classification of a     *)
(* list of paths into fastq / capture kit / index / upstream / downstream  *)
(* files (annotate_paths), the guess of sample identifiers                 *)
(* (remove_common_suffixes, guess_sample_id) and the sample table          *)
(* (as_dataframe), driven by main.                                         *)
(*                                                                         *)
(* A string is a sequence of one-character strings, a path is the string   *)
(* of its characters with "/" between its components.                      *)
(***************************************************************************)
EXTENDS Naturals, Integers, Sequences, FiniteSets, TLC

VARIABLES
    pc,                    \* position of main: see the actions
    file_list,             \* main: the sorted list of the files found
    paths,                 \* annotate_paths: list(set(paths))
    fastq_files,           \* annotate_paths: the fastq candidates
    fastq_read_sequences,  \* annotate_paths: reads left to strand pairing, or None
    annotation,            \* annotate_paths: the annotation bag, key -> list of paths
    organism,              \* as_dataframe: the organism descriptor
    samples,               \* as_dataframe: the rows of the table
    entry,                 \* who runs the engine: main, or a caller of its functions
    raised,                \* the exception that ended the run, "" when none did
    exit_status,           \* the status the process ended with, once pc = "exit"
    force,                 \* main: the --force flag
    disk,                  \* the output file of main and its directory
    console,               \* what was printed on the console, latest last
    verbose,               \* the verbose flag handed to every function
    called,                \* the detections annotate_paths has called, latest last
    family,                \* the regex handed to filter_regex
    filtered,              \* the pair of lists filter_regex returned
    name_in,               \* the name handed to remove_common_suffixes
    name_out,              \* the names remove_common_suffixes returned, latest last
    workdir,               \* the deployment scripts: what the working directory holds
    workdir_path,          \* deploy_fair_fastqc_multiqc: the path of the working directory
    shell,                 \* deploy_fair_fastqc_multiqc: the scripts run, latest last
    directory,             \* main: the --directory option, the path to search
    file_system            \* the files and the directories there are to find

\* what main's last step writes and reads
writeVars == <<force, disk, console>>
\* the argument and the result of a call of filter_regex alone
filterVars == <<family, filtered>>
\* what the deployment scripts read and write
deployVars == <<workdir, workdir_path, shell>>
\* what the search of main reads
searchVars == <<directory, file_system>>

vars == <<pc, file_list, paths, fastq_files, fastq_read_sequences, annotation,
          organism, samples, entry, raised, exit_status, name_in, name_out,
          writeVars, filterVars, verbose, called, deployVars, searchVars>>

(***************************************************************************)
(* Bounds of the model.                                                    *)
(***************************************************************************)
\* the largest number of files main finds
MaxFiles == 4
\* the largest number of fragments a name handed to remove_common_suffixes has
MaxFragments == 3
\* the longest list handed to a function called alone
MaxList == 3

(***************************************************************************)
(* Characters and their order (str comparison is by code point).          *)
(***************************************************************************)
AsciiOrder ==
    <<"+", "-", ".", "/",
      "0", "1", "2", "3", "4", "5", "6", "7", "8", "9",
      "A", "B", "C", "D", "E", "F", "G", "H", "I", "J", "K", "L", "M",
      "N", "O", "P", "Q", "R", "S", "T", "U", "V", "W", "X", "Y", "Z",
      "_",
      "a", "b", "c", "d", "e", "f", "g", "h", "i", "j", "k", "l", "m",
      "n", "o", "p", "q", "r", "s", "t", "u", "v", "w", "x", "y", "z">>

\* ord(c)
OrdTable == [c \in {AsciiOrder[i] : i \in 1..Len(AsciiOrder)} |->
                CHOOSE i \in 1..Len(AsciiOrder) : AsciiOrder[i] = c]
Ord(c) == OrdTable[c]

Digits == {"0", "1", "2", "3", "4", "5", "6", "7", "8", "9"}

Range(s) == {s[i] : i \in 1..Len(s)}

\* str.__lt__ : lexicographic, by code point
RECURSIVE StrLess(_, _)
StrLess(a, b) ==
    IF b = <<>> THEN FALSE
    ELSE IF a = <<>> THEN TRUE
    ELSE IF Head(a) = Head(b) THEN StrLess(Tail(a), Tail(b))
    ELSE Ord(Head(a)) < Ord(Head(b))

(***************************************************************************)
(* Regular expressions, as re compiles them: a backtracking matcher.      *)
(* Match(re, s, i) is the list of the positions at which a match of re    *)
(* starting at position i of s can end, in the order re tries them (the   *)
(* first is the match re reports). Positions are 1-based; a match from i  *)
(* that ends at j covers s[i..j-1].                                        *)
(***************************************************************************)
Lit(c) == [t |-> "lit", c |-> c]
Class(S) == [t |-> "class", S |-> S]
Cat(rs) == [t |-> "cat", rs |-> rs]
Alt(rs) == [t |-> "alt", rs |-> rs]
Opt(r) == [t |-> "opt", r |-> r]
Plus(r) == [t |-> "plus", r |-> r]
EndOfString == [t |-> "end"]

RECURSIVE Match(_, _, _)
RECURSIVE MatchCat(_, _, _)
RECURSIVE MatchAlt(_, _, _)
RECURSIVE MatchPlus(_, _, _)
RECURSIVE FlatMapCat(_, _, _)
RECURSIVE FlatMapPlus(_, _, _)

Match(re, s, i) ==
    CASE re.t = "lit" -> IF i <= Len(s) /\ s[i] = re.c THEN <<i + 1>> ELSE <<>>
      [] re.t = "class" -> IF i <= Len(s) /\ s[i] \in re.S THEN <<i + 1>> ELSE <<>>
      [] re.t = "end" -> IF i = Len(s) + 1 THEN <<i>> ELSE <<>>
      [] re.t = "opt" -> Match(re.r, s, i) \o <<i>>
      [] re.t = "alt" -> MatchAlt(re.rs, s, i)
      [] re.t = "cat" -> MatchCat(re.rs, s, i)
      [] re.t = "plus" -> MatchPlus(re.r, s, i)

MatchAlt(rs, s, i) ==
    IF rs = <<>> THEN <<>>
    ELSE Match(Head(rs), s, i) \o MatchAlt(Tail(rs), s, i)

\* every end of the head, each followed by the rest
FlatMapCat(ends, rs, s) ==
    IF ends = <<>> THEN <<>>
    ELSE MatchCat(rs, s, Head(ends)) \o FlatMapCat(Tail(ends), rs, s)

MatchCat(rs, s, i) ==
    IF rs = <<>> THEN <<i>>
    ELSE FlatMapCat(Match(Head(rs), s, i), Tail(rs), s)

\* greedy: one more repetition is tried before stopping
FlatMapPlus(ends, r, s) ==
    IF ends = <<>> THEN <<>>
    ELSE MatchPlus(r, s, Head(ends)) \o <<Head(ends)>> \o FlatMapPlus(Tail(ends), r, s)

MatchPlus(r, s, i) ==
    FlatMapPlus(SelectSeq(Match(r, s, i), LAMBDA e : e > i), r, s)

\* regex.search(s) is not None
search(re, s) == \E i \in 1..(Len(s) + 1) : Match(re, s, i) # <<>>

\* re.sub(re, "", s): the non-overlapping matches, leftmost first, are removed
RECURSIVE SubFrom(_, _, _)
SubFrom(re, s, i) ==
    IF i > Len(s) THEN <<>>
    ELSE LET m == Match(re, s, i)
         IN  IF m # <<>> /\ Head(m) > i
             THEN SubFrom(re, s, Head(m))
             ELSE <<s[i]>> \o SubFrom(re, s, i + 1)

sub(re, s) == SubFrom(re, s, 1)

Sep == Alt(<<Lit("_"), Lit(".")>>)
DotGz == Cat(<<Lit("."), Lit("g"), Lit("z")>>)

\* r"(_|\.)?f(ast)?q(\.gz)?$"
FastqRegex ==
    Cat(<<Opt(Sep), Lit("f"), Opt(Cat(<<Lit("a"), Lit("s"), Lit("t")>>)), Lit("q"),
          Opt(DotGz), EndOfString>>)
\* r"(_|\.)bed(\.gz)?"
CaptureKitRegex ==
    Cat(<<Sep, Lit("b"), Lit("e"), Lit("d"), Opt(DotGz)>>)
\* r"_I[\d+](_|\.)"
IndexRegex ==
    Cat(<<Lit("_"), Lit("I"), Class(Digits \cup {"+"}), Sep>>)
\* r"_R?1(_|\.)?"
R1Regex ==
    Cat(<<Lit("_"), Opt(Lit("R")), Lit("1"), Opt(Sep)>>)
\* r"_R?2(_|\.)?"
R2Regex ==
    Cat(<<Lit("_"), Opt(Lit("R")), Lit("2"), Opt(Sep)>>)
\* r"_R?(1|2)$"
StreamRegex ==
    Cat(<<Lit("_"), Opt(Lit("R")), Alt(<<Lit("1"), Lit("2")>>), EndOfString>>)
\* r"_L[0-9]+$"
LaneRegex ==
    Cat(<<Lit("_"), Lit("L"), Plus(Class(Digits)), EndOfString>>)
\* r"_E(K|R)DN[0-9]+"
EkdnRegex ==
    Cat(<<Lit("_"), Lit("E"), Alt(<<Lit("K"), Lit("R")>>), Lit("D"), Lit("N"),
          Plus(Class(Digits))>>)

(***************************************************************************)
(* pathlib and os.path.                                                    *)
(***************************************************************************)
\* the working directory Path.resolve() makes a relative path absolute with
Cwd == <<"/", "w">>

IsAbsolute(p) == p # <<>> /\ Head(p) = "/"

\* Path.resolve(), on paths without "..", "." or symbolic links
resolve(p) == IF IsAbsolute(p) THEN p ELSE Cwd \o <<"/">> \o p

\* the position of the last "/" of p, 0 when it has none
LastSlash(p) ==
    LET at == {i \in 1..Len(p) : p[i] = "/"}
    IN  IF at = {} THEN 0 ELSE CHOOSE i \in at : \A j \in at : j <= i

\* Path.name
name(p) == SubSeq(p, LastSlash(p) + 1, Len(p))

\* the components of a path, as Path compares them
RECURSIVE Parts(_)
Parts(p) ==
    LET at == {i \in 1..Len(p) : p[i] = "/"}
    IN  IF at = {} THEN <<p>>
        ELSE LET i == CHOOSE k \in at : \A j \in at : k <= j
             IN  <<IF i = 1 THEN <<"/">> ELSE SubSeq(p, 1, i - 1)>>
                     \o Parts(SubSeq(p, i + 1, Len(p)))

\* Path.__lt__ : the lists of components, compared as lists of str
RECURSIVE PartsLess(_, _)
PartsLess(a, b) ==
    IF b = <<>> THEN FALSE
    ELSE IF a = <<>> THEN TRUE
    ELSE IF Head(a) = Head(b) THEN PartsLess(Tail(a), Tail(b))
    ELSE StrLess(Head(a), Head(b))

PathLess(p, q) == PartsLess(Parts(p), Parts(q))

\* a missing sort
unsorted(ps) == ps
\* sorted(paths)
sorted(ps) == SortSeq(ps, PathLess)

\* os.path.commonprefix([a, b])
RECURSIVE commonprefix(_, _)
commonprefix(a, b) ==
    IF a = <<>> \/ b = <<>> \/ Head(a) # Head(b) THEN <<>>
    ELSE <<Head(a)>> \o commonprefix(Tail(a), Tail(b))

\* str.strip(c)
RECURSIVE LStrip(_, _)
LStrip(s, c) == IF s # <<>> /\ Head(s) = c THEN LStrip(Tail(s), c) ELSE s
RECURSIVE RStrip(_, _)
RStrip(s, c) ==
    IF s # <<>> /\ s[Len(s)] = c THEN RStrip(SubSeq(s, 1, Len(s) - 1), c) ELSE s
strip(s, c) == RStrip(LStrip(s, c), c)

(***************************************************************************)
(* remove_common_suffixes                                                  *)
(***************************************************************************)
remove_common_suffixes(n) ==
    LET n1 == sub(FastqRegex, n)
        n2 == sub(StreamRegex, n1)
        n3 == sub(LaneRegex, n2)
        n4 == sub(EkdnRegex, n3)
    IN  strip(strip(n4, "_"), ".")

(***************************************************************************)
(* Lists that may be None, and the annotation bag (a defaultdict(list)).   *)
(***************************************************************************)
\* a list
Some(l) == [is_none |-> FALSE, list |-> l]
\* None, where a list is expected
NoneList == [is_none |-> TRUE, list |-> <<>>]
\* a faulty test, that holds of anything
truthy_always(x) == TRUE
\* bool(x) of a list or None
Truthy(x) == ~x.is_none /\ x.list # <<>>

\* defaultdict(list)
EmptyAnnotation == [k \in {} |-> <<>>]
\* annotation[key], read: a missing key reads as the empty list
Get(a, key) == IF key \in DOMAIN a THEN a[key] ELSE <<>>
\* annotation[key] = value
Put(a, key, value) == [k \in DOMAIN a \cup {key} |-> IF k = key THEN value ELSE a[k]]

(***************************************************************************)
(* filter_regex, detect_pattern and its five partial applications.        *)
(***************************************************************************)
\* filter_regex: (kept, not_kept), each in the order of paths
\* a faulty filter, whose second list is built without the "not"
filter_regex_twice_kept(regex, ps) ==
    <<SelectSeq(ps, LAMBDA p : search(regex, resolve(p))),
      SelectSeq(ps, LAMBDA p : search(regex, resolve(p)))>>
\* filter_regex: two comprehensions over paths, on str(path.resolve())
filter_regex(regex, ps) ==
    <<SelectSeq(ps, LAMBDA p : search(regex, resolve(p))),
      SelectSeq(ps, LAMBDA p : ~search(regex, resolve(p)))>>

\* a faulty detection, that returns the whole list for the files not answering
detect_pattern_all_left(ps, regex) ==
    <<Some(filter_regex(regex, ps)[1]), Some(ps)>>
\* detect_pattern: answering is never None, so the last return is never taken
detect_pattern(ps, regex) ==
    LET r == filter_regex(regex, ps)
        answering == Some(r[1])
        not_answering == Some(r[2])
    IN  IF (~answering.is_none) \/ Len(answering.list) > 0
        THEN <<answering, not_answering>>
        ELSE <<NoneList, Some(ps)>>

detect_fastq(ps) == detect_pattern(ps, FastqRegex)
detet_capture_kit(ps) == detect_pattern(ps, CaptureKitRegex)
detect_index(ps) == detect_pattern(ps, IndexRegex)
detect_R1_strand(ps) == detect_pattern(ps, R1Regex)
detect_R2_strand(ps) == detect_pattern(ps, R2Regex)

(***************************************************************************)
(* filter_non_fastq_files: (fastq_files, annotation)                       *)
(***************************************************************************)
\* a faulty branch, that takes the first of several bed files for the kit
first_kit_taken(ann, bed_files) ==
    IF bed_files = <<>> THEN Put(ann, "non_fastq_files", <<>>)
    ELSE Put(Put(ann, "capture_kit_bed", <<sorted(bed_files)[1]>>),
             "non_fastq_files", Tail(sorted(bed_files)))
\* else: annotation["non_fastq_files"] = list(sorted(bed_files))
no_single_kit(ann, bed_files) == Put(ann, "non_fastq_files", sorted(bed_files))

filter_non_fastq_files(ps, ann) ==
    LET d == detect_fastq(ps)
        fq == d[1]
        other_files == d[2]
    IN  IF (~other_files.is_none) /\ Len(other_files.list) >= 1
        THEN LET b == detet_capture_kit(other_files.list)
                 bed_files == b[1]
                 others == b[2]
                 a1 == IF bed_files.is_none THEN ann
                       ELSE IF Len(bed_files.list) = 1
                       THEN Put(Put(ann, "capture_kit_bed", bed_files.list),
                                "non_fastq_files", sorted(others.list))
                       ELSE no_single_kit(ann, bed_files.list)
                 a2 == IF (~others.is_none) /\ Len(others.list) >= 1
                       THEN Put(a1, "non_fastq_files",
                                Get(a1, "non_fastq_files") \o sorted(others.list))
                       ELSE a1
             IN  <<fq, a2>>
        ELSE <<fq, ann>>

(***************************************************************************)
(* filter_index_fastq_files: (reads left to pair or None, annotation)      *)
(***************************************************************************)
\* n == m / 2, the division being Python's true division
EqualsHalf(n, m) == 2 * n = m

\* list(chunked_even(l, 2)): consecutive chunks of two, a last chunk of one
\* when the length is odd
\* a faulty chunking: the first half of the list paired with the second
chunked_by_halves(l) ==
    [i \in 1..(Len(l) \div 2) |-> <<l[i], l[i + (Len(l) \div 2)]>>]
chunked_even(l) ==
    [i \in 1..((Len(l) + 1) \div 2) |->
        SubSeq(l, 2 * i - 1, IF 2 * i <= Len(l) THEN 2 * i ELSE 2 * i - 1)]

\* the index files put back among the reads, the dropped variant being a
\* faulty one that loses them
merge_back_without_index(reads, idx) == sorted(reads)
\* sorted(fastq_read_sequences + fastq_index_sequences)
merge_back(reads, idx) == sorted(reads \o idx)

filter_index_fastq_files(ps, ann) ==
    LET d == detect_index(ps)
        fastq_index_sequences == d[1]
        reads == d[2].list
    IN  IF Truthy(fastq_index_sequences)
        THEN LET idx == fastq_index_sequences.list
             IN  IF Len(idx) = Len(reads)
                 THEN <<NoneList,
                        Put(Put(ann, "upstream_file", sorted(reads)),
                            "index", sorted(idx))>>
                 ELSE IF EqualsHalf(Len(idx), Len(reads))
                 THEN LET chunks == chunked_even(sorted(reads))
                      IN  <<NoneList,
                            Put(Put(Put(ann, "index", sorted(idx)),
                                    "upstream_file",
                                    [i \in 1..Len(chunks) |-> chunks[i][1]]),
                                "downstream_file",
                                [i \in 1..Len(chunks) |-> chunks[i][2]])>>
                 ELSE <<Some(merge_back(reads, idx)), ann>>
        ELSE <<Some(ps), ann>>

(***************************************************************************)
(* annotate_paths, after index separation: strand pairing.                 *)
(***************************************************************************)
NoException == [type |-> "", msg |-> ""]
NoFastqFound == [type |-> "FileNotFoundError", msg |-> "No fastq file found"]
NoUpstreamFile == [type |-> "ValueError", msg |-> "No fastq file found in paths"]
ArraysLength == [type |-> "ValueError", msg |-> "All arrays must be of the same length"]
OrganismUnpack == [type |-> "ValueError", msg |-> "values to unpack (expected 3)"]
NameNotDefined == [type |-> "NameError", msg |-> "name 'name' is not defined"]
\* search_files_on_iRODS: no ~/.irods/irods_environment.json; and the session
\* class, which the module imports from nowhere
NoEnvFile == [type |-> "FileNotFoundError", msg |-> "Could not find env_file"]
NoIRODSSession == [type |-> "NameError", msg |-> "name 'iRODSSession' is not defined"]
\* path.iterdir(): nothing is at the path; a file is
NoSuchDirectory == [type |-> "FileNotFoundError", msg |-> "No such file or directory"]
NotADirectory == [type |-> "NotADirectoryError", msg |-> "Not a directory"]
\* what ends main in its search, before annotate_paths is called
SearchErrors == {NoSuchDirectory, NotADirectory, NoEnvFile, NoIRODSSession}

\* a faulty list, that loses the files of neither strand
without_leftover(upstream_fastq, other_fastq) == sorted(upstream_fastq)
\* sorted(upstream_fastq + other_fastq)
with_leftover(upstream_fastq, other_fastq) == sorted(upstream_fastq \o other_fastq)

\* a faulty branch, that records nothing
single_ended_forgotten(ann, reads) == ann
\* a faulty branch, that also records an empty downstream_file
single_ended_with_downstream(ann, reads) ==
    Put(Put(ann, "upstream_file", sorted(reads)), "downstream_file", <<>>)
\* else: annotation["upstream_file"] = sorted(fastq_read_sequences)
single_ended(ann, reads) == Put(ann, "upstream_file", sorted(reads))

pair_strands(reads, ann) ==
    IF Truthy(reads)
    THEN LET u == detect_R1_strand(reads.list)
             upstream_fastq == u[1].list
             d == detect_R2_strand(u[2].list)
             downstream_fastq == d[1].list
             other_fastq == d[2].list
         IN  IF Len(upstream_fastq) = Len(downstream_fastq)
             THEN [raised |-> NoException,
                   annotation |->
                       Put(Put(ann, "upstream_file",
                               with_leftover(upstream_fastq, other_fastq)),
                           "downstream_file", sorted(downstream_fastq))]
             ELSE [raised |-> NoException,
                   annotation |-> single_ended(ann, reads.list)]
    ELSE IF "upstream_file" \notin DOMAIN ann
    THEN [raised |-> NoUpstreamFile, annotation |-> ann]
    ELSE [raised |-> NoException, annotation |-> ann]

(***************************************************************************)
(* guess_sample_id and as_dataframe.                                       *)
(***************************************************************************)
\* str.split(sep)
RECURSIVE split(_, _)
split(s, sep) ==
    LET at == {i \in 1..Len(s) : s[i] = sep}
    IN  IF at = {} THEN <<s>>
        ELSE LET i == CHOOSE k \in at : \A j \in at : k <= j
             IN  <<SubSeq(s, 1, i - 1)>> \o split(SubSeq(s, i + 1, Len(s)), sep)

\* guess_sample_id, of the rows (upstream_file, downstream_file) of a frame whose
\* columns are given: the name `name` of its last loop is not defined
guess_sample_id(rows, columns) ==
    IF "downstream_file" \in columns
    THEN [raised |-> NoException,
          ids |-> [i \in 1..Len(rows) |->
                      IF rows[i].downstream_file # <<>>
                      THEN remove_common_suffixes(
                               commonprefix(name(rows[i].upstream_file),
                                            name(rows[i].downstream_file)))
                      ELSE remove_common_suffixes(name(rows[i].upstream_file))]]
    ELSE IF rows # <<>>
    THEN [raised |-> NameNotDefined, ids |-> <<>>]
    ELSE [raised |-> NoException, ids |-> <<>>]

\* a faulty unpacking, which takes the first three tokens of more
unpacks_first_three(tokens) == Len(tokens) >= 3
\* species, build, release = tokens
unpacks(tokens) == Len(tokens) = 3

\* as_dataframe: the exception raised and the rows of the table returned.
\* DataFrame.from_dict raises ValueError on columns of different lengths; the
\* unpacking of organism.split(".") raises ValueError unless there are 3 tokens;
\* set_index accepts duplicated and empty keys.
as_dataframe(annotated, org) ==
    LET up == Get(annotated, "upstream_file")
        down == Get(annotated, "downstream_file")
        tokens == split(org, ".")
    IN  IF Len(up) # Len(down)
        THEN [raised |-> ArraysLength, rows |-> <<>>]
        ELSE IF ~unpacks(tokens)
        THEN [raised |-> OrganismUnpack, rows |-> <<>>]
        ELSE LET frame == [i \in 1..Len(up) |->
                              [upstream_file |-> up[i], downstream_file |-> down[i]]]
                 g == guess_sample_id(frame, {"upstream_file", "downstream_file",
                                              "species", "build", "release"})
             IN  IF g.raised # NoException
                 THEN [raised |-> g.raised, rows |-> <<>>]
                 ELSE [raised |-> NoException,
                       rows |-> [i \in 1..Len(up) |->
                                    [sample_id |-> g.ids[i],
                                     upstream_file |-> up[i],
                                     downstream_file |-> down[i],
                                     species |-> tokens[1],
                                     build |-> tokens[2],
                                     release |-> tokens[3]]]]

(***************************************************************************)
(* The inputs.                                                             *)
(***************************************************************************)
DirD == <<"/", "d", "/">>
DirE == <<"/", "e", "/">>
FastqGz == <<".", "f", "a", "s", "t", "q", ".", "g", "z">>

\* the files a run may find: two pairs, their index files, a file without a
\* strand marker and a file that is no fastq file
Universe ==
    { DirD \o <<"A", "_", "R", "1">> \o FastqGz,
      DirD \o <<"A", "_", "R", "2">> \o FastqGz,
      DirD \o <<"B", "_", "R", "1">> \o FastqGz,
      DirD \o <<"B", "_", "R", "2">> \o FastqGz,
      DirD \o <<"A", "_", "I", "1">> \o FastqGz,
      DirD \o <<"B", "_", "I", "1">> \o FastqGz,
      DirD \o <<"C", ".", "f", "q">>,
      DirD \o <<"n", ".", "t", "x", "t">> }

\* files the search passes over: of a .git and of a .snakemake directory
Hidden ==
    { DirD \o <<".", "g", "i", "t", "/", "B", "_", "R", "1">> \o FastqGz,
      DirD \o <<".", "s", "n", "a", "k", "e", "m", "a", "k", "e", "/",
                "l", "o", "g", ".", "t", "x", "t">> }

\* the files of a run whose names collide or vanish: one pair in two
\* directories, a pair and a file named by their suffixes alone
IdUniverse ==
    { DirD \o <<"A", "_", "R", "1">> \o FastqGz,
      DirD \o <<"A", "_", "R", "2">> \o FastqGz,
      DirE \o <<"A", "_", "R", "1">> \o FastqGz,
      DirE \o <<"A", "_", "R", "2">> \o FastqGz,
      DirD \o <<"_", "1", ".", "f", "q">>,
      DirD \o <<"_", "2", ".", "f", "q">>,
      DirD \o <<".", "f", "q">> }

\* the --organism choices of main
OrganismChoices ==
    { <<"h", "o", "m", "o", "_", "s", "a", "p", "i", "e", "n", "s", ".", "G", "R", "C", "h", "3", "8", ".", "1", "0", "5">>,
      <<"h", "o", "m", "o", "_", "s", "a", "p", "i", "e", "n", "s", ".", "G", "R", "C", "h", "3", "7", ".", "7", "5">>,
      <<"m", "u", "s", "_", "m", "u", "s", "c", "u", "l", "u", "s", ".", "G", "R", "C", "m", "3", "8", ".", "9", "9">>,
      <<"m", "u", "s", "_", "m", "u", "s", "c", "u", "l", "u", "s", ".", "G", "R", "C", "m", "3", "9", ".", "1", "0", "9">>,
      <<"h", "o", "m", "o", "_", "s", "a", "p", "i", "e", "n", "s", ".", "G", "R", "C", "h", "3", "8", ".", "1", "0", "9">> }

\* descriptors a caller of as_dataframe may pass besides
OtherOrganisms ==
    { <<"h", "o", "m", "o", "_", "s", "a", "p", "i", "e", "n", "s">>,
      <<"h", "o", "m", "o", "_", "s", "a", "p", "i", "e", "n", "s", ".", "G", "R", "C", "h", "3", "8">>,
      <<"h", "o", "m", "o", "_", "s", "a", "p", "i", "e", "n", "s", ".", "G", "R", "C", "h", "3", "8", ".", "p", "1", "4", ".", "1", "0", "5">>,
      <<>> }

Organisms(e) == IF e = "main" THEN OrganismChoices ELSE OrganismChoices \cup OtherOrganisms

\* the fragments the names handed to remove_common_suffixes are made of
Fragments ==
    { <<"a">>, <<"_">>, <<".">>, <<".", "f", "q">>, <<".", "f", "a", "s", "t", "q", ".", "g", "z">>, <<"_", "R", "1">>,
      <<"_", "2">>, <<"_", "L", "1">>, <<"_", "E", "K", "D", "N", "1">>, <<"b">> }

RECURSIVE NamesOf(_)
NamesOf(n) ==
    IF n = 0 THEN {<<>>}
    ELSE LET shorter == NamesOf(n - 1)
         IN  shorter \cup {a \o f : a \in shorter, f \in Fragments}

Names == NamesOf(MaxFragments)

(***************************************************************************)
(* The orders list(set(paths)) may have: any, a set having no order.       *)
(***************************************************************************)
RECURSIVE SetToSeq(_)
SetToSeq(S) ==
    IF S = {} THEN <<>>
    ELSE LET x == CHOOSE y \in S : TRUE IN <<x>> \o SetToSeq(S \ {x})

\* the lists of at most MaxList elements of U
Lists(U) == UNION {[1..n -> U] : n \in 0..MaxList}

\* l without the repeats of its elements
RECURSIVE FirstOccurrences(_)
FirstOccurrences(l) ==
    IF l = <<>> THEN <<>>
    ELSE LET init == FirstOccurrences(SubSeq(l, 1, Len(l) - 1))
         IN  IF l[Len(l)] \in Range(init) THEN init ELSE Append(init, l[Len(l)])

\* every order of the elements of S
RECURSIVE OrdersOf(_)
OrdersOf(S) ==
    IF S = {} THEN {<<>>}
    ELSE UNION {{<<x>> \o o : o \in OrdersOf(S \ {x})} : x \in S}

\* list(set(l)): the order of a set is any order
Orders(l) == OrdersOf(Range(l))

(***************************************************************************)
(* main, step by step.                                                     *)
(***************************************************************************)
Idle ==
    /\ paths = <<>>
    /\ fastq_files = NoneList
    /\ fastq_read_sequences = NoneList
    /\ annotation = EmptyAnnotation
    /\ organism = <<>>
    /\ samples = <<>>
    /\ raised = NoException
    /\ exit_status = 0

\* The output file of main and its directory: the directory is missing, or it
\* is there without the file, or the file is there, left by an earlier run.
OldRows == <<[sample_id |-> <<"o", "l", "d">>]>>
FreshDisk == [parent |-> FALSE, exists |-> FALSE, rows |-> <<>>]
EmptyDirectory == [parent |-> TRUE, exists |-> FALSE, rows |-> <<>>]
ExistingFile == [parent |-> TRUE, exists |-> TRUE, rows |-> OldRows]
Disks == {FreshDisk, EmptyDirectory, ExistingFile}

\* The working directory of the deployment scripts: a path of it holds "" when
\* it is missing, "directory", or the name of what wrote the file last
\* ("user": the file was there before the run).
config_dir == "config"
workflow_dir == "workflow"
samples_csv == "config/samples.csv"
genomes_csv == "config/genomes.csv"
config_yaml == "config/config.yaml"
workflow_smk == "workflow/Snakefile"
log_dir == "logs"
tmp_dir == "tmp"
scripts_dir == "scripts"
sbatch_sh == "scripts/sbatch.sh"
Directories == {config_dir, workflow_dir, log_dir, tmp_dir, scripts_dir}
ConfigFiles == {samples_csv, genomes_csv, config_yaml}
WorkdirPaths == Directories \cup ConfigFiles \cup {workflow_smk, sbatch_sh}
Missing == ""
EmptyWorkdir == [p \in WorkdirPaths |-> Missing]

\* no deployment script runs
NoDeploy ==
    /\ workdir = EmptyWorkdir
    /\ workdir_path = <<>>
    /\ shell = <<>>

\* no search of main: a caller of annotate_paths hands it the paths
NoSearch ==
    /\ directory = <<>>
    /\ file_system = [files |-> {}, directories |-> {}]

\* no call of filter_regex alone
NoRegex == [t |-> "none"]
NoCall ==
    /\ family = NoRegex
    /\ filtered = <<>>

\* Path.parent
parent(p) ==
    IF LastSlash(p) = 0 THEN <<".">>
    ELSE IF LastSlash(p) = 1 THEN <<"/">>
    ELSE SubSeq(p, 1, LastSlash(p) - 1)
\* the directories a path is below, up to the root
RECURSIVE parents(_)
parents(p) ==
    IF parent(p) = p \/ LastSlash(p) = 0 THEN {}
    ELSE {parent(p)} \cup parents(parent(p))
\* the directory main is told to search: the deepest one every file of U is
\* below, the root when they share no other
SharedDirectory(U) ==
    LET shared == {d \in UNION {parents(f) : f \in U} : \A f \in U : d \in parents(f)}
    IN  CHOOSE d \in shared : \A c \in shared : Len(c) <= Len(d)
\* the names search_files_locally passes over, with what is below them
NotSearched ==
    { <<".", "g", "i", "t">>,
      <<".", "s", "n", "a", "k", "e", "m", "a", "k", "e">> }
\* a file system: its files, and its directories, which are those the files
\* and the directories are below, and directories that hold nothing
FileSystem(files, empty) ==
    [files |-> files,
     directories |-> empty \cup UNION {parents(p) : p \in files \cup empty}]

\* larger runs: two pairs with a file of neither strand, two pairs with their
\* index files, three reads with two index files
TwoPairs ==
    { DirD \o <<"A", "_", "R", "1">> \o FastqGz,
      DirD \o <<"A", "_", "R", "2">> \o FastqGz,
      DirD \o <<"B", "_", "R", "1">> \o FastqGz,
      DirD \o <<"B", "_", "R", "2">> \o FastqGz }
TwoIndexFiles ==
    { DirD \o <<"A", "_", "I", "1">> \o FastqGz,
      DirD \o <<"B", "_", "I", "1">> \o FastqGz }
Scenarios ==
    { TwoPairs \cup {DirD \o <<"C", ".", "f", "q">>},
      TwoPairs \cup TwoIndexFiles,
      (TwoPairs \ {DirD \o <<"B", "_", "R", "2">> \o FastqGz}) \cup TwoIndexFiles }
\* files the search passes over, alone and next to files it finds
HiddenScenarios ==
    { Hidden,
      Hidden \cup {DirD \o <<"A", "_", "R", "1">> \o FastqGz,
                   DirD \o <<"A", "_", "R", "2">> \o FastqGz},
      {DirD \o <<".", "g", "i", "t", "/", "B", "_", "R", "1">> \o FastqGz,
       DirD \o <<"n", ".", "t", "x", "t">>} }
\* the files of a run: any MaxFiles files of U at most that the search does
\* not pass over, and the larger runs and the runs with files passed over
\* that are made of files of U
FileSets(U) ==
    {T \in SUBSET (U \ Hidden) : Cardinality(T) <= MaxFiles}
        \cup {T \in Scenarios \cup HiddenScenarios : T \subseteq U}

\* what there may be where main is told to search for the files of U: the
\* directory, with any of the files; nothing at all; a file
FileSystems(U) ==
    LET path == SharedDirectory(U)
    IN  {FileSystem(S, {path}) : S \in FileSets(U)}
            \cup (IF parents(path) = {} THEN {}
                  ELSE {FileSystem({}, {parent(path)}), FileSystem({path}, {})})

\* main, with the --force flag and the output file of the command line:
\* file_list = [], and the search to come, in the directory or, when --iRODS
\* is given, on iRODS; a caller of annotate_paths hands it the files
InitMain(e, U, Forces, D) ==
    /\ entry = e
    /\ \/ /\ e # "main"
          /\ pc = "start"
          /\ file_list \in {sorted(SetToSeq(S)) : S \in FileSets(U)}
          /\ NoSearch
       \/ /\ e = "main"
          /\ pc = "search_files_locally"
          /\ file_list = <<>>
          /\ directory = SharedDirectory(U)
          /\ file_system \in FileSystems(U)
       \/ /\ e = "main"
          /\ pc = "search_files_on_iRODS"
          /\ file_list = <<>>
          /\ directory = SharedDirectory(U)
          /\ file_system = FileSystem({}, {SharedDirectory(U)})
    /\ Idle
    /\ name_in = <<>>
    /\ name_out = <<>>
    /\ force \in Forces
    /\ disk \in D
    /\ console = <<>>
    /\ verbose = FALSE
    /\ called = <<>>
    /\ NoDeploy
    /\ NoCall

\* a first run without --force: nothing where the output file goes
InitRun(e, U) == InitMain(e, U, {FALSE}, {FreshDisk})

Init == InitRun("main", Universe \cup Hidden)

(***************************************************************************)
(* What the functions print on the console, and the detections they call.  *)
(***************************************************************************)
\* console.print(text, style=style): the text, the numbers and the regex
\* formatted into it, and the style
Say(text, args, regex, style) ==
    [text |-> text, args |-> args, regex |-> regex, style |-> style]
Green(text) == Say(text, <<>>, NoRegex, "green")
Orange(text) == Say(text, <<>>, NoRegex, "dark_orange")

NotOverwritten == Orange(":warning: Existing file not over-written")
\* console.print_exception(show_locals=True)
PrintException == Say("print_exception", <<>>, NoRegex, "")
AmbiguousIndexRatio == Green("Could not link index files and the rest of fastq files")

\* filter_regex, if verbose
filter_regex_says(regex, ps) ==
    LET r == filter_regex(regex, ps)
    IN  <<Say("Out of {} paths, {} answered {}, {} did not.",
              <<Len(ps), Len(r[1]), Len(r[2])>>, regex, "green")>>
        \o (IF Len(r[1]) = 0 THEN <<Orange(":warning: No files kept!")>> ELSE <<>>)

\* filter_non_fastq_files, if verbose
filter_non_fastq_files_says(ps) ==
    LET other_files == detect_fastq(ps)[2]
    IN  filter_regex_says(FastqRegex, ps)
        \o (IF (~other_files.is_none) /\ Len(other_files.list) >= 1
            THEN LET bed_files == detet_capture_kit(other_files.list)[1]
                 IN  filter_regex_says(CaptureKitRegex, other_files.list)
                     \o (IF bed_files.is_none
                         THEN <<Green("There were no bed files (flagged as suspected capture kit file)")>>
                         ELSE IF Len(bed_files.list) = 1
                         THEN <<Green("File flagged as suspected capture kit: {bed_files=}")>>
                         ELSE <<>>)
            ELSE <<>>)
filter_non_fastq_files_calls(ps) ==
    LET other_files == detect_fastq(ps)[2]
    IN  <<"detect_fastq">>
        \o (IF (~other_files.is_none) /\ Len(other_files.list) >= 1
            THEN <<"detet_capture_kit">> ELSE <<>>)

\* filter_index_fastq_files, if verbose
filter_index_fastq_files_says(ps) ==
    LET d == detect_index(ps)
        idx == d[1]
        reads == d[2].list
    IN  filter_regex_says(IndexRegex, ps)
        \o (IF Truthy(idx)
            THEN IF Len(idx.list) = Len(reads)
                 THEN <<Say("It seems there are as much index files as read files, library seems single-ended.",
                            <<>>, NoRegex, "")>>
                 ELSE IF EqualsHalf(Len(idx.list), Len(reads))
                 THEN <<Green("It seems there are half index files as read files, library seems pair-ended.")>>
                 ELSE <<AmbiguousIndexRatio>>
            ELSE <<Green("No index identified")>>)

\* annotate_paths, from "if fastq_read_sequences:" on, if verbose
pair_strands_says(reads) ==
    IF Truthy(reads)
    THEN LET u == detect_R1_strand(reads.list)
             d == detect_R2_strand(u[2].list)
         IN  filter_regex_says(R1Regex, reads.list)
             \o filter_regex_says(R2Regex, u[2].list)
             \o (IF Len(u[1].list) = Len(d[1].list)
                 THEN <<Green("We found pairs of files")>>
                 ELSE <<Green("Could not find any pairs of file(s) with confidence")>>)
    ELSE <<>>
pair_strands_calls(reads) ==
    IF Truthy(reads) THEN <<"detect_R1_strand", "detect_R2_strand">> ELSE <<>>

\* as_dataframe, if verbose and once the table is built
as_dataframe_says(rows) ==
    IF Len(rows) = 1
    THEN <<Say("{} sample was identified and annotated.", <<1>>, NoRegex, "green")>>
    ELSE <<Say("{} samples were identified and annotated.", <<Len(rows)>>, NoRegex, "green")>>

\* a faulty handling, where main goes on to the table after the exception
raise_and_go_on(exc, status) ==
    /\ raised' = exc
    /\ pc' = IF entry = "main" THEN "write" ELSE "raised"
    /\ exit_status' = IF entry = "main" THEN status ELSE exit_status
\* An exception leaves main through sys.exit(status) where it is caught, and as
\* an uncaught exception (status 1) elsewhere; it reaches any other caller.
Raise(exc, status) ==
    /\ raised' = exc
    /\ pc' = IF entry = "main" THEN "exit" ELSE "raised"
    /\ exit_status' = IF entry = "main" THEN status ELSE exit_status

\* what a step adds to the console: its messages if verbose
Said(messages) == console \o (IF verbose THEN messages ELSE <<>>)
\* main: except ...: console.print_exception(show_locals=True)
Caught == IF entry = "main" THEN <<PrintException>> ELSE <<>>

\* search_files_on_iRODS(project_id, ...), env_file: the environment file of
\* iRODS is there.  What it raises and what it logs before, if verbose
search_files_on_iRODS(env_file, v) ==
    IF ~env_file
    THEN [raised |-> NoEnvFile, says |-> <<>>]
    ELSE [raised |-> NoIRODSSession,
          says |-> IF v THEN <<Say("Searching for {project_id=} on iRODS", <<>>, NoRegex, "")>>
                   ELSE <<>>]

\* console.print(f"Searching in {path.resolve()}", style="green")
SearchingIn(path) == Say("Searching in {path.resolve()}", <<resolve(path)>>, NoRegex, "green")
\* console.print(f"Found {content.resolve()}", style="green")
FoundContent(content) ==
    Say("Found {content.resolve()}", <<resolve(content)>>, NoRegex, "green")

\* path.iterdir(), in a file system of these files and directories: what is
\* in the directory; an error where the path is a file or nothing
iterdir(path, files, directories) ==
    IF path \in files THEN [raised |-> NotADirectory, contents |-> {}]
    ELSE IF path \notin directories THEN [raised |-> NoSuchDirectory, contents |-> {}]
    ELSE [raised |-> NoException,
          contents |-> {content \in files \cup directories :
                            content # path /\ parent(content) = path}]

\* the lists made of one list of each set of ss, in their order
RECURSIVE Concats(_)
Concats(ss) ==
    IF ss = <<>> THEN {<<>>}
    ELSE {a \o b : a \in Head(ss), b \in Concats(Tail(ss))}

\* search_files_locally(path, verbose, console): every content of path but
\* .git and .snakemake is yielded, a directory after what is found in it.
\* What is raised, what is yielded, and what may be printed: the contents
\* of a directory come in any order
RECURSIVE search_files_locally(_, _, _, _)
search_files_locally(path, files, directories, v) ==
    LET listed == iterdir(path, files, directories)
        entered == IF v THEN <<SearchingIn(path)>> ELSE <<>>
        of == [content \in listed.contents |->
                 IF name(content) \in NotSearched THEN [yields |-> {}, says |-> {<<>>}]
                 ELSE LET below == IF content \in directories
                                   THEN search_files_locally(content, files, directories, v)
                                   ELSE [yields |-> {}, says |-> {<<>>}]
                      IN  [yields |-> below.yields \cup {content},
                           says |-> {s \o (IF v THEN <<FoundContent(content)>> ELSE <<>>) :
                                        s \in below.says}]]
    IN  IF listed.raised # NoException
        THEN [raised |-> listed.raised, yields |-> {}, says |-> {entered}]
        ELSE [raised |-> NoException,
              yields |-> UNION {of[content].yields : content \in listed.contents},
              says |-> IF v
                       THEN {entered \o said :
                                said \in UNION {Concats([i \in 1..Len(o) |-> of[o[i]].says]) :
                                                   o \in OrdersOf(listed.contents)}}
                       ELSE {<<>>}]

\* main: file_list = sorted(search_files_locally(directory, verbose, console)),
\* outside the try: what iterdir raises is caught by nothing, and
\* annotate_paths is not called
SearchLocally ==
    /\ pc = "search_files_locally"
    /\ LET r == search_files_locally(directory, file_system.files,
                                     file_system.directories, verbose)
       IN  /\ console' \in {console \o said : said \in r.says}
           /\ IF r.raised = NoException
              THEN /\ file_list' = sorted(SetToSeq(r.yields))
                   /\ pc' = "start"
                   /\ UNCHANGED <<raised, exit_status>>
              ELSE /\ raised' = r.raised
                   /\ exit_status' = 1
                   /\ pc' = "exit"
                   /\ UNCHANGED file_list
    /\ UNCHANGED <<deployVars, searchVars, paths, fastq_files, fastq_read_sequences,
                   annotation, organism, samples, entry, name_in, name_out,
                   force, disk, filterVars, verbose, called>>

\* main --iRODS: sorted(search_files_on_iRODS(...)), outside the try: the
\* exception is caught by nothing and annotate_paths is not called
SearchOnIRODS ==
    /\ pc = "search_files_on_iRODS"
    /\ \E env_file \in BOOLEAN :
          LET r == search_files_on_iRODS(env_file, verbose)
          IN  /\ raised' = r.raised
              /\ console' = console \o r.says
    /\ exit_status' = 1
    /\ pc' = "exit"
    /\ UNCHANGED <<deployVars, searchVars, file_list, paths, fastq_files, fastq_read_sequences,
                   annotation, organism, samples, entry, name_in, name_out,
                   force, disk, filterVars, verbose, called>>

\* annotate_paths: annotation = defaultdict(list); paths = list(set(paths))
DropDuplicates ==
    /\ pc = "start"
    /\ paths' \in Orders(file_list)
    /\ annotation' = EmptyAnnotation
    /\ pc' = "filter_non_fastq"
    /\ UNCHANGED <<deployVars, searchVars, file_list, fastq_files, fastq_read_sequences, organism, samples,
                   entry, raised, exit_status, name_in, name_out,
                   writeVars, filterVars, verbose, called>>

\* a faulty check, of None alone
no_fastq_file_none_only(fq) == fq.is_none
\* (fastq_files is None) or (len(fastq_files) == 0)
no_fastq_file(fq) == fq.is_none \/ Len(fq.list) = 0

\* annotate_paths: filter_non_fastq_files, and the check of its result
FilterNonFastq ==
    /\ pc = "filter_non_fastq"
    /\ LET r == filter_non_fastq_files(paths, annotation)
       IN  /\ fastq_files' = r[1]
           /\ annotation' = r[2]
           /\ IF no_fastq_file(r[1])
              THEN /\ Raise(NoFastqFound, 1)
                   /\ console' = Said(filter_non_fastq_files_says(paths)) \o Caught
              ELSE /\ pc' = "filter_index"
                   /\ console' = Said(filter_non_fastq_files_says(paths))
                   /\ UNCHANGED <<raised, exit_status>>
    /\ called' = called \o filter_non_fastq_files_calls(paths)
    /\ UNCHANGED <<deployVars, searchVars, file_list, paths, fastq_read_sequences, organism, samples, entry,
                   name_in, name_out,
                   force, disk, filterVars, verbose>>

\* annotate_paths: filter_index_fastq_files
FilterIndex ==
    /\ pc = "filter_index"
    /\ LET r == filter_index_fastq_files(fastq_files.list, annotation)
       IN  /\ fastq_read_sequences' = r[1]
           /\ annotation' = r[2]
    /\ pc' = "pairing"
    /\ console' = Said(filter_index_fastq_files_says(fastq_files.list))
    /\ called' = Append(called, "detect_index")
    /\ UNCHANGED <<deployVars, searchVars, file_list, paths, fastq_files, organism, samples, entry, raised,
                   exit_status, name_in, name_out,
                   force, disk, filterVars, verbose>>

\* annotate_paths: the search of pairs, and its return
PairStrands ==
    /\ pc = "pairing"
    /\ LET r == pair_strands(fastq_read_sequences, annotation)
       IN  /\ annotation' = r.annotation
           /\ IF r.raised # NoException
              THEN /\ Raise(r.raised, 2)
                   /\ console' = Said(pair_strands_says(fastq_read_sequences)) \o Caught
              ELSE /\ pc' = "as_dataframe"
                   /\ console' = Said(pair_strands_says(fastq_read_sequences))
                   /\ UNCHANGED <<raised, exit_status>>
    /\ called' = called \o pair_strands_calls(fastq_read_sequences)
    /\ UNCHANGED <<deployVars, searchVars, file_list, paths, fastq_files, fastq_read_sequences, organism,
                   samples, entry, name_in, name_out,
                   force, disk, filterVars, verbose>>

\* reading a missing key of a defaultdict adds it
Touch(a, key) == Put(a, key, Get(a, key))

\* main: as_dataframe, whose exceptions main does not catch
AsDataframe ==
    /\ pc = "as_dataframe"
    /\ \E org \in Organisms(entry) :
          LET r == as_dataframe(annotation, org)
          IN  /\ organism' = org
              /\ samples' = r.rows
              /\ IF r.raised # NoException
                 THEN /\ Raise(r.raised, 1)
                      /\ console' = console
                 ELSE /\ pc' = "write"
                      /\ console' = Said(as_dataframe_says(r.rows))
                      /\ UNCHANGED <<raised, exit_status>>
    /\ annotation' = Touch(Touch(annotation, "upstream_file"), "downstream_file")
    /\ UNCHANGED <<deployVars, searchVars, file_list, paths, fastq_files, fastq_read_sequences, entry,
                   name_in, name_out,
                   force, disk, filterVars, verbose, called>>

\* a faulty test, that writes over what exists alone
may_write_over(f, exists) == f \/ exists
\* (force) or (not output.exists())
may_write(f, exists) == f \/ ~exists

\* main: output.parent.mkdir(...) where the directory is missing, then
\* samples.to_csv(output, ...) or the warning
Write ==
    /\ pc = "write"
    /\ entry = "main"
    /\ IF may_write(force, disk.exists)
       THEN /\ disk' = [parent |-> TRUE, exists |-> TRUE, rows |-> samples]
            /\ console' = Said(<<Say("{}", <<Len(samples)>>, NoRegex, "")>>)
       ELSE /\ disk' = [disk EXCEPT !.parent = TRUE]
            /\ console' = Append(Said(<<Say("{}", <<Len(samples)>>, NoRegex, "")>>),
                                 NotOverwritten)
    /\ pc' = "done"
    /\ UNCHANGED <<deployVars, searchVars, file_list, paths, fastq_files, fastq_read_sequences, annotation,
                   organism, samples, entry, raised, exit_status, name_in, name_out,
                   force, filterVars, verbose, called>>

\* annotate_paths, then as_dataframe
NextEngine ==
    \/ DropDuplicates
    \/ FilterNonFastq
    \/ FilterIndex
    \/ PairStrands
    \/ AsDataframe

Next ==
    \/ SearchLocally
    \/ SearchOnIRODS
    \/ DropDuplicates
    \/ FilterNonFastq
    \/ FilterIndex
    \/ PairStrands
    \/ AsDataframe
    \/ Write

Spec == Init /\ [][Next]_vars

\* the engine's functions, called with any organism descriptor
InitLibrary == InitRun("library", Universe)
SpecLibrary == InitLibrary /\ [][NextEngine]_vars

\* main, on files of which several look like capture kits
KitUniverse ==
    { DirD \o <<"A", "_", "R", "1">> \o FastqGz,
      DirD \o <<"A", "_", "R", "2">> \o FastqGz,
      DirD \o <<"C", ".", "f", "q">>,
      DirD \o <<"k", ".", "b", "e", "d">>,
      DirD \o <<"m", ".", "b", "e", "d", ".", "g", "z">>,
      DirD \o <<"n", ".", "t", "x", "t">>,
      DirD \o <<"r", ".", "x", "m", "l">> }
InitKits == InitRun("main", KitUniverse)
SpecKits == InitKits /\ [][Next]_vars

\* annotate_paths alone
NextAnnotate ==
    \/ DropDuplicates
    \/ FilterNonFastq
    \/ FilterIndex
    \/ PairStrands

\* annotate_paths, on files of the working directory spelled in two ways
DirW == Cwd \o <<"/">>
SpellingUniverse ==
    { DirW \o <<"C", ".", "f", "q">>,
      <<"C", ".", "f", "q">>,
      DirW \o <<"A", "_", "R", "1">> \o FastqGz,
      <<"A", "_", "R", "1">> \o FastqGz,
      DirW \o <<"A", "_", "R", "2">> \o FastqGz,
      <<"A", "_", "R", "2">> \o FastqGz,
      DirW \o <<"n", ".", "t", "x", "t">> }
InitSpellings == InitRun("library", SpellingUniverse)
SpecSpellings == InitSpellings /\ [][NextAnnotate]_vars

\* annotate_paths, on any list of paths: any order, repeats allowed
OrderUniverse ==
    { DirD \o <<"A", "_", "R", "1">> \o FastqGz,
      DirD \o <<"A", "_", "R", "2">> \o FastqGz,
      DirD \o <<"B", "_", "R", "1">> \o FastqGz,
      DirD \o <<"A", "_", "I", "1">> \o FastqGz,
      DirD \o <<"k", ".", "b", "e", "d">>,
      DirD \o <<"n", ".", "t", "x", "t">> }
InitOrder ==
    /\ pc = "start"
    /\ entry = "library"
    /\ file_list \in Lists(OrderUniverse)
    /\ Idle
    /\ name_in = <<>>
    /\ name_out = <<>>
    /\ force = FALSE
    /\ disk = FreshDisk
    /\ console = <<>>
    /\ verbose = FALSE
    /\ called = <<>>
    /\ NoSearch
    /\ NoDeploy
    /\ NoCall
SpecOrder == InitOrder /\ [][NextAnnotate]_vars

\* annotate_paths and as_dataframe, verbose or not, on index files in every
\* ratio to the reads
VerboseUniverse ==
    { DirD \o <<"A", "_", "R", "1">> \o FastqGz,
      DirD \o <<"A", "_", "R", "2">> \o FastqGz,
      DirD \o <<"B", "_", "R", "1">> \o FastqGz,
      DirD \o <<"A", "_", "I", "1">> \o FastqGz,
      DirD \o <<"B", "_", "I", "1">> \o FastqGz,
      DirD \o <<"n", ".", "t", "x", "t">> }
InitVerbose ==
    /\ pc = "start"
    /\ entry = "library"
    /\ file_list \in {sorted(SetToSeq(S)) : S \in SUBSET VerboseUniverse}
    /\ Idle
    /\ name_in = <<>>
    /\ name_out = <<>>
    /\ force = FALSE
    /\ disk = FreshDisk
    /\ console = <<>>
    /\ verbose \in BOOLEAN
    /\ called = <<>>
    /\ NoSearch
    /\ NoDeploy
    /\ NoCall
SpecVerbose == InitVerbose /\ [][NextEngine]_vars

\* main with and without --force, whatever is there where the output file goes
WriteUniverse ==
    { DirD \o <<"A", "_", "R", "1">> \o FastqGz,
      DirD \o <<"A", "_", "R", "2">> \o FastqGz,
      DirD \o <<"C", ".", "f", "q">>,
      DirD \o <<"n", ".", "t", "x", "t">>,
      DirD \o <<"s", "/", "B", "_", "R", "1">> \o FastqGz }
InitWrite == InitMain("main", WriteUniverse, BOOLEAN, Disks)
SpecWrite == InitWrite /\ [][Next]_vars

\* main, on files whose names collide or vanish
InitIds == InitRun("main", IdUniverse)
SpecIds == InitIds /\ [][Next]_vars

(***************************************************************************)
(* filter_regex, called alone on any list of paths, in any order and with  *)
(* repeats, for each of the five regexes of the module.                    *)
(***************************************************************************)
DirD1 == <<"/", "d", "_", "1", "/">>
FilterUniverse ==
    { DirD \o <<"C", ".", "f", "q">>,
      DirD1 \o <<"C", ".", "f", "q">>,
      DirD \o <<"A", "_", "I", "1">> \o FastqGz,
      DirD \o <<"A", "_", "I", "1", "0", ".", "f", "q">>,
      DirD \o <<"A", "_", "I", "+", ".", "f", "q">>,
      DirD \o <<"k", ".", "b", "e", "d">> }
Families == {FastqRegex, CaptureKitRegex, IndexRegex, R1Regex, R2Regex}

InitFilter ==
    /\ pc = "filter_regex"
    /\ entry = "library"
    /\ paths \in Lists(FilterUniverse)
    /\ family \in Families
    /\ filtered = <<>>
    /\ file_list = <<>>
    /\ fastq_files = NoneList
    /\ fastq_read_sequences = NoneList
    /\ annotation = EmptyAnnotation
    /\ organism = <<>>
    /\ samples = <<>>
    /\ raised = NoException
    /\ exit_status = 0
    /\ name_in = <<>>
    /\ name_out = <<>>
    /\ force = FALSE
    /\ disk = FreshDisk
    /\ console = <<>>
    /\ verbose = FALSE
    /\ called = <<>>
    /\ NoSearch
    /\ NoDeploy

\* kept, not_kept = filter_regex(regex, paths)
FilterRegex ==
    /\ pc = "filter_regex"
    /\ filtered' = filter_regex(family, paths)
    /\ pc' = "filtered"
    /\ UNCHANGED <<deployVars, searchVars, file_list, paths, fastq_files, fastq_read_sequences, annotation,
                   organism, samples, entry, raised, exit_status, name_in, name_out,
                   writeVars, family, verbose, called>>

NextFilter == FilterRegex

SpecFilter == InitFilter /\ [][NextFilter]_vars

(***************************************************************************)
(* remove_common_suffixes, applied to a name and to its own result.        *)
(***************************************************************************)
InitNames ==
    /\ pc = "names"
    /\ entry = "library"
    /\ file_list = <<>>
    /\ Idle
    /\ name_in \in Names
    /\ name_out = <<>>
    /\ force = FALSE
    /\ disk = FreshDisk
    /\ console = <<>>
    /\ verbose = FALSE
    /\ called = <<>>
    /\ NoSearch
    /\ NoDeploy
    /\ NoCall

StripSuffixes ==
    /\ pc = "names"
    /\ Len(name_out) < 2
    /\ name_out' = Append(name_out,
                          remove_common_suffixes(IF name_out = <<>> THEN name_in
                                                 ELSE name_out[Len(name_out)]))
    /\ UNCHANGED <<deployVars, searchVars, pc, file_list, paths, fastq_files, fastq_read_sequences, annotation,
                   organism, samples, entry, raised, exit_status, name_in,
                   writeVars, filterVars, verbose, called>>

NextNames == StripSuffixes

SpecNames == InitNames /\ [][NextNames]_vars

(***************************************************************************)
(* The deployment scripts.  Each is a command of its own: it ends with a   *)
(* status, leaves the working directory in some state, and prints.         *)
(***************************************************************************)
\* os.path.exists(path), Path(path).exists()
Exists(wd, p) == wd[p] # Missing
\* Path(path).exists, the method itself and not a call of it: an object,
\* true whatever the path
exists_method(wd, p) == TRUE
\* raise FileNotFoundError(f"Could not find {path}")
CouldNotFind(p) == [type |-> "FileNotFoundError", msg |-> p]
\* open(path, "r") of a missing file
NoSuchFile(p) == [type |-> "FileNotFoundError", msg |-> p]
\* the end of a command: its exit status, the exception that ended it, the
\* working directory it leaves and what it printed
Ended(status, exc, wd, says) ==
    [status |-> status, raised |-> exc, workdir |-> wd, says |-> says]
IfVerbose(v, messages) == IF v THEN messages ELSE <<>>

\* a file is in a directory that exists
WellFormed(wd) ==
    /\ \A p \in ConfigFiles : Exists(wd, p) => Exists(wd, config_dir)
    /\ Exists(wd, workflow_smk) => Exists(wd, workflow_dir)
    /\ Exists(wd, sbatch_sh) => Exists(wd, scripts_dir)
\* the working directories a script is started in: every file there is the
\* user's
Workdirs ==
    {wd \in [WorkdirPaths -> {Missing, "directory", "user"}] :
        /\ \A p \in Directories : wd[p] \in {Missing, "directory"}
        /\ \A p \in WorkdirPaths \ Directories : wd[p] \in {Missing, "user"}
        /\ wd[log_dir] = Missing
        /\ wd[tmp_dir] = Missing
        /\ WellFormed(wd)}

\* the config directory of a pipeline's repository: none, or a directory
\* with some of the three files
Repositories == {{}} \cup {{config_dir} \cup F : F \in SUBSET ConfigFiles}
\* snakedeploy's deploy(...): copies the config directory of the repository
\* and writes workflow/Snakefile, which declares the pipeline as a module
deploy(wd, repo) ==
    [p \in WorkdirPaths |->
        IF p \in Directories
        THEN IF p \in repo \cup {workflow_dir} THEN "directory" ELSE wd[p]
        ELSE IF p \in repo \cup {workflow_smk} THEN "snakedeploy" ELSE wd[p]]

\* the --tag choices explored: the default and a version
Tags == {"latest", "1.0.0"}
\* g.ls_remote(...) without a remote that answers
GitCommandError == [type |-> "GitCommandError", msg |-> "ls-remote"]
\* the character U+0060 of the warning below, by its code point: a string of
\* the module cannot hold it
Backquote == 96
\* the warning of line 83: the path is printed between two backquotes, the
\* slots {} of the text
AlreadyDeployed ==
    Say(":warning: warning: A pipeline has already been deployed at {}{workdir.resolve()}{}",
        <<Backquote, Backquote>>, NoRegex, "dark_orange")
\* project_deploy.py; remote: the pipeline's repository answers ls_remote
deploy_pipeline(wd, f, v, repo, tag, remote) ==
    LET first == IfVerbose(v, <<Green("Deploying {pipeline}...")>>)
        version == IF tag = "latest"
                   THEN IfVerbose(v, <<Green("Pipeline version is: {tag}")>>)
                   ELSE <<>>
        last == IfVerbose(v, <<Green(":ballot_box_with_check: Pipeline deployed")>>)
    IN  IF tag = "latest" /\ ~remote
        THEN Ended(1, GitCommandError, wd, first)
        ELSE IF f \/ ~(Exists(wd, config_dir) \/ Exists(wd, workflow_dir))
        THEN Ended(0, NoException, deploy(wd, repo), first \o version \o last)
        ELSE Ended(0, NoException, wd,
                   first \o version
                   \o IfVerbose(v, <<AlreadyDeployed>>)
                   \o last)

\* project_config.py, with the paths deploy_fair_fastqc_multiqc gives it, which
\* are its defaults
create_config(wd, f, v) ==
    LET first == IfVerbose(v, <<Green("Configuring pipeline...")>>)
        checked == <<samples_csv, genomes_csv, workflow_smk>>
        missing == {i \in 1..Len(checked) : ~Exists(wd, checked[i])}
        version == IF wd[workflow_smk] = "snakedeploy" THEN <<>>
                   ELSE <<Orange(":warning: warning: Could not find pipeline version")>>
        last == IfVerbose(v, <<Green(":ballot_box_with_check: Configuration file available")>>)
    IN  IF missing # {}
        THEN Ended(1, CouldNotFind(checked[CHOOSE i \in missing : \A j \in missing : i <= j]), wd,
                   Append(first, PrintException))
        ELSE IF f \/ ~exists_method(wd, config_yaml)
        THEN Ended(0, NoException, [wd EXCEPT ![config_yaml] = "project_config"],
                   first \o version \o <<Green("{config}")>> \o last)
        ELSE Ended(0, NoException, wd, first \o version \o last)

\* project_genomes.py; databases: the reference files of the cluster are all
\* there
configure_genomes(wd, f, v, databases) ==
    LET first == IfVerbose(v, <<Say("Checking genome file paths...", <<>>, NoRegex, "")>>)
        last == IfVerbose(v, <<Green(":ballot_box_with_check: Genome files linked")>>)
    IN  IF ~databases
        THEN Ended(1, CouldNotFind("/mnt/beegfs/database"), wd,
                   Append(first, PrintException))
        ELSE IF Exists(wd, genomes_csv) /\ (f = FALSE)
        THEN Ended(0, NoException, wd,
                   first \o <<Say(":warning: A genome file already exists", <<>>, NoRegex, "")>>
                         \o last)
        ELSE IF ~Exists(wd, config_dir)
        THEN Ended(1, [type |-> "OSError", msg |-> config_dir], wd, first)
        ELSE Ended(0, NoException, [wd EXCEPT ![genomes_csv] = "project_genomes"],
                   first \o last)

\* project_sbatch.py, with the time deploy_fair_fastqc_multiqc gives it by
\* default, which select_queue accepts
sbatch_creator(wd, v) ==
    LET first == IfVerbose(v, <<Green("Building sbatch script...")>>)
        made == [p \in WorkdirPaths |->
                    IF p \in {log_dir, tmp_dir, scripts_dir} THEN "directory" ELSE wd[p]]
    IN  IF ~Exists(wd, config_yaml)
        THEN Ended(1, NoSuchFile(config_yaml), made, first)
        ELSE Ended(0, NoException, [made EXCEPT ![sbatch_sh] = "project_sbatch"],
                   first \o IfVerbose(v, <<Green(":ballot_box_with_check: Sbatch script available")>>))

\* the paths --workdir is given: one without a space and one with a space
WorkdirNames ==
    { Cwd,
      <<"/", "w", "i", "t", "h", " ", "s", "p", "a", "c", "e", "/", "w">> }

\* a script started from the command line, in any working directory, with or
\* without --force and --verbose
InitScript(e) ==
    /\ pc = e
    /\ entry = e
    /\ file_list = <<>>
    /\ Idle
    /\ name_in = <<>>
    /\ name_out = <<>>
    /\ force \in BOOLEAN
    /\ disk = FreshDisk
    /\ console = <<>>
    /\ verbose \in BOOLEAN
    /\ called = <<>>
    /\ NoCall
    /\ NoSearch
    /\ workdir \in Workdirs
    /\ workdir_path \in (IF e = "deploy_fair_fastqc_multiqc" THEN WorkdirNames ELSE {Cwd})
    /\ shell = <<>>

\* project_config.py, run from the command line
CreateConfig ==
    /\ pc = "create_config"
    /\ LET r == create_config(workdir, force, verbose)
       IN  /\ workdir' = r.workdir
           /\ console' = console \o r.says
           /\ raised' = r.raised
           /\ exit_status' = r.status
           /\ pc' = IF r.status = 0 THEN "done" ELSE "exit"
    /\ UNCHANGED <<searchVars, file_list, paths, fastq_files, fastq_read_sequences,
                   annotation, organism, samples, entry, name_in, name_out, force, disk,
                   filterVars, verbose, called, workdir_path, shell>>

InitConfig == InitScript("create_config")
NextConfig == CreateConfig
SpecConfig == InitConfig /\ [][NextConfig]_vars

\* deploy_fair_fastqc_multiqc: what its steps leave alone
engineVars == <<searchVars, file_list, paths, fastq_files, fastq_read_sequences, annotation,
                organism, samples, entry, name_in, name_out, force, disk,
                filterVars, verbose, called>>

\* extra += "--verbose " when verbose; force += "--force " when force, a
\* bool and a str, which is a TypeError nothing catches
Options ==
    /\ pc = "deploy_fair_fastqc_multiqc"
    /\ IF force
       THEN /\ raised' = [type |-> "TypeError", msg |-> "unsupported operand type(s) for +=: 'bool' and 'str'"]
            /\ exit_status' = 1
            /\ pc' = "exit"
       ELSE /\ pc' = "project_deploy"
            /\ UNCHANGED <<raised, exit_status>>
    /\ UNCHANGED <<engineVars, console, deployVars>>

\* shell(...) of a script, which prints on the same terminal: a status other
\* than 0 is a CalledProcessError, caught with print_exception and sys.exit(1)
Shell(script, r, next) ==
    /\ shell' = Append(shell, [script |-> script, status |-> r.status])
    /\ workdir' = r.workdir
    /\ UNCHANGED workdir_path
    /\ IF r.status = 0
       THEN /\ console' = console \o r.says
            /\ pc' = next
            /\ UNCHANGED <<raised, exit_status>>
       ELSE /\ console' = Append(console \o r.says, PrintException)
            /\ raised' = [type |-> "CalledProcessError", msg |-> script]
            /\ exit_status' = 1
            /\ pc' = "exit"
    /\ UNCHANGED engineVars

\* 1. Deploying snakemake pipeline, with the --tag of the command line: extra
\* holds --verbose at most
ProjectDeploy ==
    /\ pc = "project_deploy"
    /\ \E repo \in Repositories, tag \in Tags, remote \in BOOLEAN :
          Shell("project_deploy.py",
                deploy_pipeline(workdir, FALSE, verbose, repo, tag, remote),
                "project_config")

\* 2. Creating configuration file
ProjectConfig ==
    /\ pc = "project_config"
    /\ Shell("project_config.py", create_config(workdir, FALSE, verbose),
             "project_genomes")

\* 3. Creating genomes file
ProjectGenomes ==
    /\ pc = "project_genomes"
    /\ \E databases \in BOOLEAN :
          Shell("project_genomes.py",
                configure_genomes(workdir, FALSE, verbose, databases),
                "project_sbatch")

\* 4. Creating sbatch script
ProjectSbatch ==
    /\ pc = "project_sbatch"
    /\ Shell("project_sbatch.py", sbatch_creator(workdir, verbose), "project_tree")

\* the words bash makes of a text that is not quoted: it splits it at the
\* spaces
RECURSIVE Words(_)
Words(s) ==
    IF s = <<>> THEN <<>>
    ELSE IF Head(s) = " " THEN Words(Tail(s))
    ELSE LET spaces == {i \in 1..Len(s) : s[i] = " "}
             n == IF spaces = {} THEN Len(s) + 1
                  ELSE CHOOSE i \in spaces : \A j \in spaces : i <= j
         IN  <<SubSeq(s, 1, n - 1)>> \o Words(SubSeq(s, n, Len(s)))

\* project_tree.py --directory and the words that follow: click takes one
\* word for the option and refuses a command line with any other (status 2);
\* the tree of the directory, which is there, is printed
tree(words) ==
    IF Len(words) # 1
    THEN [status |-> 2, says |-> <<>>]
    ELSE [status |-> 0, says |-> <<Say("{tree}", <<>>, NoRegex, "")>>]

\* Post deployment utilities: project_tree.py if verbose, on a path that is not
\* quoted and outside the try, so that nothing catches its CalledProcessError;
\* and the hint
ProjectTree ==
    /\ pc = "project_tree"
    /\ LET r == IF verbose THEN tree(Words(workdir_path))
                ELSE [status |-> 0, says |-> <<>>]
       IN  /\ shell' = IF verbose
                       THEN Append(shell, [script |-> "project_tree.py", status |-> r.status])
                       ELSE shell
           /\ IF r.status = 0
              THEN /\ console' = console \o r.says
                         \o <<Say("Use '{script_dir}/project_samples.py' to get your file paths from iRODS.",
                                  <<>>, NoRegex, "")>>
                   /\ pc' = "done"
                   /\ UNCHANGED <<raised, exit_status>>
              ELSE /\ console' = console
                   /\ raised' = [type |-> "CalledProcessError", msg |-> "project_tree.py"]
                   /\ exit_status' = 1
                   /\ pc' = "exit"
    /\ UNCHANGED <<engineVars, workdir, workdir_path>>

InitDeploy == InitScript("deploy_fair_fastqc_multiqc")
NextDeploy ==
    \/ Options
    \/ ProjectDeploy
    \/ ProjectConfig
    \/ ProjectGenomes
    \/ ProjectSbatch
    \/ ProjectTree
SpecDeploy == InitDeploy /\ [][NextDeploy]_vars

(***************************************************************************)
(* What the properties below speak of.                                     *)
(***************************************************************************)
\* the files of the run
InputSet == Range(file_list)
\* the fastq candidates, the index files and the read files among them
FastqOf(S) == {p \in S : search(FastqRegex, resolve(p))}
IndexOf(S) == {p \in FastqOf(S) : search(IndexRegex, resolve(p))}
ReadsOf(S) == FastqOf(S) \ IndexOf(S)
\* main has ended, with a table to write or with an error
Finished == pc \in {"write", "exit", "raised"}
\* a set of paths, as a sorted list
SortedList(S) == sorted(SetToSeq(S))

EndsWith(s, suffix) ==
    /\ Len(s) >= Len(suffix)
    /\ SubSeq(s, Len(s) - Len(suffix) + 1, Len(s)) = suffix
WithoutSuffix(s, suffix) == SubSeq(s, 1, Len(s) - Len(suffix))
Directory(p) == SubSeq(p, 1, LastSlash(p))
SuffixR1 == <<"_", "R", "1">> \o FastqGz
SuffixR2 == <<"_", "R", "2">> \o FastqGz
\* p is <P>_R1.fastq.gz and q is <P>_R2.fastq.gz, side by side
Mates(p, q) ==
    /\ EndsWith(name(p), SuffixR1)
    /\ EndsWith(name(q), SuffixR2)
    /\ WithoutSuffix(name(p), SuffixR1) = WithoutSuffix(name(q), SuffixR2)
    /\ Directory(p) = Directory(q)
\* S is made of pairs <P>_R1.fastq.gz / <P>_R2.fastq.gz alone, of distinct prefixes
PairsOnly(S) ==
    /\ S # {}
    /\ \A p \in S : \E q \in S : Mates(p, q) \/ Mates(q, p)
    /\ \A p, q \in S :
          (p # q /\ EndsWith(name(p), SuffixR1) /\ EndsWith(name(q), SuffixR1))
              => WithoutSuffix(name(p), SuffixR1) # WithoutSuffix(name(q), SuffixR1)
\* no name of S carries an index marker or a strand marker
NoMarker(S) ==
    \A p \in S : /\ ~search(IndexRegex, name(p))
                  /\ ~search(R1Regex, name(p))
                  /\ ~search(R2Regex, name(p))
\* the number of sep in s
RECURSIVE Count(_, _)
Count(s, sep) ==
    IF s = <<>> THEN 0
    ELSE (IF Head(s) = sep THEN 1 ELSE 0) + Count(Tail(s), sep)
\* as_dataframe was called, and has returned or raised
AsDataframeCalled ==
    \/ pc \in {"write", "done"}
    \/ pc \in {"exit", "raised"}
          /\ raised \notin {NoFastqFound, NoUpstreamFile} \cup SearchErrors

(***************************************************************************)
(* C1. For every input made of N >= 1 pairs <P>_R1.fastq.gz /              *)
(* <P>_R2.fastq.gz of distinct prefixes, the run ends with a table of N    *)
(* rows, each row holding the two files of one pair and having the         *)
(* prefix P of that pair as its sample_id.                                 *)
(* Stated as the claim has it; the code names the sample "<P>_R".          *)
(***************************************************************************)
C1_PairsNamedByPrefix ==
    (Finished /\ PairsOnly(InputSet)) =>
        /\ pc = "write"
        /\ 2 * Len(samples) = Cardinality(InputSet)
        /\ \A i \in 1..Len(samples) :
              /\ samples[i].upstream_file \in InputSet
              /\ samples[i].downstream_file \in InputSet
              /\ Mates(samples[i].upstream_file, samples[i].downstream_file)
              /\ samples[i].sample_id =
                     WithoutSuffix(name(samples[i].upstream_file), SuffixR1)

(***************************************************************************)
(* C2. For every input with at least one fastq file and no index or        *)
(* strand marker in any name, the run ends with a table of one row per     *)
(* fastq file, each without a downstream file.                             *)
(* Stated as the claim has it; the code fails in DataFrame.from_dict.      *)
(***************************************************************************)
C2_UnmarkedFilesAreSingleEnded ==
    (Finished /\ FastqOf(InputSet) # {} /\ NoMarker(InputSet)) =>
        /\ pc = "write"
        /\ Len(samples) = Cardinality(FastqOf(InputSet))
        /\ {samples[i].upstream_file : i \in 1..Len(samples)} = FastqOf(InputSet)
        /\ \A i \in 1..Len(samples) : samples[i].downstream_file = <<>>

(***************************************************************************)
(* C3. Whenever the fastq files are k >= 1 index files and k read files,   *)
(* the run ends with a table of k rows, one per read file and without a    *)
(* downstream file, and with an index list of length k.                    *)
(* Stated as the claim has it; the code fails in DataFrame.from_dict.      *)
(***************************************************************************)
C3_OneIndexPerReadIsSingleEnded ==
    (/\ Finished
     /\ IndexOf(InputSet) # {}
     /\ Cardinality(IndexOf(InputSet)) = Cardinality(ReadsOf(InputSet))) =>
        /\ pc = "write"
        /\ Len(samples) = Cardinality(ReadsOf(InputSet))
        /\ {samples[i].upstream_file : i \in 1..Len(samples)} = ReadsOf(InputSet)
        /\ \A i \in 1..Len(samples) : samples[i].downstream_file = <<>>
        /\ Len(Get(annotation, "index")) = Cardinality(IndexOf(InputSet))

(***************************************************************************)
(* C4. Whenever the fastq files are k >= 1 index files and 2k read files,  *)
(* the run does not fail and its table has k rows: row i holds the         *)
(* (2i-1)-th sorted read file as upstream_file and the 2i-th as            *)
(* downstream_file, and the index list is the sorted index files.          *)
(***************************************************************************)
C4_HalfAsManyIndexFilesIsPaired ==
    LET idx == IndexOf(InputSet)
        reads == SortedList(ReadsOf(InputSet))
        k == Cardinality(idx)
    IN  (/\ pc \in {"exit", "pairing", "as_dataframe", "write", "done"}
         /\ k >= 1
         \* k index files and 2k read files: 3k fastq files
         /\ Cardinality(FastqOf(InputSet)) = 3 * k) =>
            /\ pc # "exit"
            /\ pc \in {"pairing", "as_dataframe", "write", "done"} =>
                  /\ annotation["index"] = SortedList(idx)
                  /\ Len(annotation["index"]) = k
                  /\ annotation["upstream_file"] = [i \in 1..k |-> reads[2 * i - 1]]
                  /\ annotation["downstream_file"] = [i \in 1..k |-> reads[2 * i]]
            /\ pc \in {"write", "done"} =>
                  /\ Len(samples) = k
                  /\ \A i \in 1..k :
                        /\ samples[i].upstream_file = reads[2 * i - 1]
                        /\ samples[i].downstream_file = reads[2 * i]

\* a table of two pairs was built from four read files and two index files
C4_Witness ==
    /\ pc = "write"
    /\ Cardinality(IndexOf(InputSet)) = 2
    /\ Cardinality(ReadsOf(InputSet)) = 4
    /\ Len(samples) = 2

(***************************************************************************)
(* C5. Whenever index separation finds index files, neither as many as     *)
(* the read files nor half as many, it records no index, upstream_file     *)
(* or downstream_file entry and hands to strand pairing the sorted list    *)
(* of all the fastq files, index files included.                           *)
(***************************************************************************)
C5_AmbiguousRatioFallsThrough ==
    LET idx == IndexOf(InputSet)
        reads == ReadsOf(InputSet)
    IN  (/\ pc = "pairing"
         /\ idx # {}
         /\ Cardinality(idx) # Cardinality(reads)
         /\ 2 * Cardinality(idx) # Cardinality(reads)) =>
            /\ DOMAIN annotation \cap {"index", "upstream_file", "downstream_file"} = {}
            /\ ~fastq_read_sequences.is_none
            /\ fastq_read_sequences.list = SortedList(idx \cup reads)

\* index separation has seen three read files and two index files
C5_Witness ==
    /\ pc = "pairing"
    /\ Cardinality(IndexOf(InputSet)) = 2
    /\ Cardinality(ReadsOf(InputSet)) = 3
    /\ Len(fastq_read_sequences.list) = 5

\* annotate_paths is called: the search for the files is over and has not
\* ended the run on what iterdir or search_files_on_iRODS raises
Annotating ==
    /\ pc \notin {"search_files_locally", "search_files_on_iRODS"}
    /\ raised \notin SearchErrors

(***************************************************************************)
(* C6. For every input without a fastq file, the empty input included,     *)
(* annotate_paths raises its FileNotFoundError before index separation     *)
(* and strand pairing, and main exits (with status 1), no table built.     *)
(***************************************************************************)
C6_NoFastqFoundAborts ==
    (/\ Annotating
     /\ pc \notin {"start", "filter_non_fastq"}
     /\ FastqOf(InputSet) = {}) =>
        /\ pc = "exit"
        /\ raised = NoFastqFound
        /\ exit_status = 1
        /\ fastq_read_sequences = NoneList
        /\ "upstream_file" \notin DOMAIN annotation
        /\ samples = <<>>

\* a run of one file, which is no fastq file, has exited
C6_Witness ==
    /\ pc = "exit"
    /\ Cardinality(InputSet) = 1
    /\ FastqOf(InputSet) = {}
    /\ raised = NoFastqFound

(***************************************************************************)
(* C7. The rows of a table that is returned have pairwise distinct         *)
(* sample_id keys (a run in which two pairs get one sample_id fails).      *)
(* Stated as the claim has it; the code returns the table.                 *)
(***************************************************************************)
C7_SampleIdsAreUnique ==
    pc = "write" =>
        \A i, j \in 1..Len(samples) :
            i # j => samples[i].sample_id # samples[j].sample_id

(***************************************************************************)
(* C8. No row of a table that is returned has an empty sample_id (a run    *)
(* in which suffix stripping leaves an empty name fails).                  *)
(* Stated as the claim has it; the code returns the table.                 *)
(***************************************************************************)
C8_SampleIdsAreNotEmpty ==
    pc = "write" => \A i \in 1..Len(samples) : samples[i].sample_id # <<>>

(***************************************************************************)
(* C9. as_dataframe raises (a ValueError) and returns no table for every   *)
(* organism descriptor that has not exactly three tokens between dots,     *)
(* and that with the frame built it is the unpacking of the descriptor     *)
(* that raises; a descriptor of three tokens never makes it raise.         *)
(***************************************************************************)
C9_OrganismOfThreeTokens ==
    AsDataframeCalled =>
        /\ Count(organism, ".") # 2 =>
              /\ pc \notin {"write", "done"}
              /\ raised.type = "ValueError"
              /\ samples = <<>>
              /\ (Len(Get(annotation, "upstream_file"))
                     = Len(Get(annotation, "downstream_file"))) =>
                    raised = OrganismUnpack
        /\ Count(organism, ".") = 2 => raised # OrganismUnpack

\* as_dataframe was given a descriptor of four tokens and a frame it could build
C9_Witness ==
    /\ AsDataframeCalled
    /\ Count(organism, ".") = 3
    /\ raised = OrganismUnpack
    /\ Len(Get(annotation, "downstream_file")) = 2

(***************************************************************************)
(* C10. remove_common_suffixes(remove_common_suffixes(x)) =                *)
(* remove_common_suffixes(x) for every name x.                             *)
(* Stated as the claim has it; the code strips "a.fq.fq" to "a.fq" and     *)
(* that to "a".                                                            *)
(***************************************************************************)
C10_StrippingIsIdempotent ==
    Len(name_out) = 2 => name_out[2] = name_out[1]


(***************************************************************************)
(* C11. main writes the table to the output file exactly when the file     *)
(* does not exist yet or --force is set: the file then holds the table.    *)
(* When the file exists and --force is not set, the step leaves the file   *)
(* as it was, prints the warning and the run does not fail; and no step    *)
(* before that one touches the file.                                       *)
(***************************************************************************)
C11_WritesUnlessExistingAndNotForced ==
    [][/\ (pc = "write" /\ pc' = "done") =>
             /\ (force \/ ~disk.exists) =>
                   /\ disk'.exists
                   /\ disk'.rows = samples
                   /\ console' = console
             /\ (~force /\ disk.exists) =>
                   /\ disk'.exists
                   /\ disk'.rows = disk.rows
                   /\ console' = Append(console, NotOverwritten)
             /\ exit_status' = 0
             /\ raised' = NoException
       /\ pc # "write" => disk' = disk]_vars

\* a run without --force has ended beside the file of an earlier run, warned
C11_Witness ==
    /\ pc = "done"
    /\ ~force
    /\ disk = ExistingFile
    /\ samples # <<>>
    /\ console = <<NotOverwritten>>
    /\ exit_status = 0

(***************************************************************************)
(* C12. Every fatal error aborts main with a status that is not zero and   *)
(* that no other kind of error shares: a run that ends on an error has a   *)
(* status that is not zero, a run that ends on a missing upstream file or  *)
(* on a malformed organism does not have the status 1 of a run without     *)
(* fastq files, and a run whose sample ids would be empty or repeated      *)
(* does not go on to a table.                                              *)
(***************************************************************************)
C12_FatalErrorsAbortWithOwnStatus ==
    /\ pc = "exit" => exit_status # 0
    /\ (pc = "exit" /\ raised = NoFastqFound) => exit_status = 1
    /\ (pc = "exit" /\ raised \in {NoUpstreamFile, OrganismUnpack}) => exit_status # 1
    /\ pc \in {"write", "done"} =>
          /\ \A i \in 1..Len(samples) : samples[i].sample_id # <<>>
          /\ \A i, j \in 1..Len(samples) :
                i # j => samples[i].sample_id # samples[j].sample_id

\* a is b without some of its elements, the others in the order of b
RECURSIVE IsSubsequence(_, _)
IsSubsequence(a, b) ==
    IF a = <<>> THEN TRUE
    ELSE IF b = <<>> THEN FALSE
    ELSE IF Head(a) = Head(b) THEN IsSubsequence(Tail(a), Tail(b))
    ELSE IsSubsequence(a, Tail(b))

(***************************************************************************)
(* C13. For every list of paths and every regex of the module,             *)
(* filter_regex returns two lists that share no element, that hold         *)
(* together every element of the list as many times as the list does, and  *)
(* that each keep the order of the list; the list itself is not modified.  *)
(***************************************************************************)
C13_FilterRegexPartitions ==
    [][(pc = "filter_regex" /\ pc' = "filtered") =>
          LET kept == filtered'[1]
              not_kept == filtered'[2]
          IN  /\ Len(filtered') = 2
              /\ Range(kept) \cap Range(not_kept) = {}
              /\ \A p \in FilterUniverse :
                    Count(kept, p) + Count(not_kept, p) = Count(paths, p)
              /\ IsSubsequence(kept, paths)
              /\ IsSubsequence(not_kept, paths)
              /\ paths' = paths]_vars

\* a path given twice, around another one, was kept twice and the other was not
C13_Witness ==
    /\ pc = "filtered"
    /\ Len(paths) = 3
    /\ paths[1] = paths[3]
    /\ paths[1] # paths[2]
    /\ filtered = <<<<paths[1], paths[3]>>, <<paths[2]>>>>

(***************************************************************************)
(* C14. Matching depends on the base name of a path alone: for every       *)
(* regex of the module, two paths of the same base name are both kept or   *)
(* both not kept, and a kept path has the marker in its base name, never   *)
(* in a directory of its resolved path alone.                              *)
(***************************************************************************)
C14_MatchingIsOnBaseName ==
    pc = "filtered" =>
        /\ \A p, q \in Range(paths) :
              name(p) = name(q) =>
                  (p \in Range(filtered[1]) <=> q \in Range(filtered[1]))
        /\ \A p \in Range(filtered[1]) : search(family, name(p))

\* "_I", one or more digits, then "_" or "."
IndexMarker == Cat(<<Lit("_"), Lit("I"), Plus(Class(Digits)), Sep>>)

(***************************************************************************)
(* C15. The index regex keeps every fastq file whose name holds "_I",      *)
(* one or more digits, then "_" or "." (_I1_, _I2., _I10_), and keeps no   *)
(* file whose name lacks it.                                               *)
(***************************************************************************)
C15_IndexMarkerOfAnyNumberOfDigits ==
    (pc = "filtered" /\ family = IndexRegex) =>
        \A p \in Range(paths) :
            search(FastqRegex, name(p)) =>
                (p \in Range(filtered[1]) <=> search(IndexMarker, name(p)))

\* the files that are not fastq candidates, and the capture kits among them
NonFastqOf(S) == S \ FastqOf(S)
KitsOf(S) == {p \in NonFastqOf(S) : search(CaptureKitRegex, resolve(p))}
\* annotate_paths has gone past filter_non_fastq_files without raising
Classified == pc \in {"filter_index", "pairing", "as_dataframe", "write", "done"}

(***************************************************************************)
(* C16. When exactly one of the files that are not fastq files is a        *)
(* capture kit, capture_kit_bed holds that file and non_fastq_files holds  *)
(* the other files that are not fastq files, each once, and nothing else.  *)
(***************************************************************************)
C16_SingleKitIsRecorded ==
    (Classified /\ Cardinality(KitsOf(InputSet)) = 1) =>
        LET rest == NonFastqOf(InputSet) \ KitsOf(InputSet)
            listed == Get(annotation, "non_fastq_files")
        IN  /\ Range(Get(annotation, "capture_kit_bed")) = KitsOf(InputSet)
            /\ Len(Get(annotation, "capture_kit_bed")) = 1
            /\ Range(listed) = rest
            /\ \A p \in rest : Count(listed, p) = 1

(***************************************************************************)
(* C17. When none or several of the files that are not fastq files are     *)
(* capture kits, the bag has no capture_kit_bed and non_fastq_files holds  *)
(* every file that is not a fastq file, each once, and nothing else.       *)
(***************************************************************************)
C17_NoSingleKitListsEveryFile ==
    (Classified /\ Cardinality(KitsOf(InputSet)) # 1) =>
        LET listed == Get(annotation, "non_fastq_files")
        IN  /\ "capture_kit_bed" \notin DOMAIN annotation
            /\ Range(listed) = NonFastqOf(InputSet)
            /\ \A p \in NonFastqOf(InputSet) : Count(listed, p) = 1

\* two capture kits and another file were all listed, beside a fastq file
C17_Witness ==
    /\ Classified
    /\ Cardinality(KitsOf(InputSet)) = 2
    /\ Cardinality(NonFastqOf(InputSet)) = 3
    /\ Len(annotation["non_fastq_files"]) = 3
    /\ "capture_kit_bed" \notin DOMAIN annotation

\* annotate_paths has returned its bag
Returned ==
    \/ pc \in {"as_dataframe", "write", "done"}
    \/ pc \in {"exit", "raised"}
          /\ raised \notin {NoFastqFound, NoUpstreamFile} \cup SearchErrors

(***************************************************************************)
(* C18. In every bag annotate_paths returns, no file of upstream_file or   *)
(* of downstream_file is also in index or in non_fastq_files.              *)
(***************************************************************************)
C18_ReadsApartFromIndexAndOthers ==
    Returned =>
        (Range(Get(annotation, "upstream_file"))
            \cup Range(Get(annotation, "downstream_file")))
        \cap (Range(Get(annotation, "index"))
                 \cup Range(Get(annotation, "non_fastq_files"))) = {}

\* a bag with a pair of reads, their index file and another file was returned
C18_Witness ==
    /\ Returned
    /\ Len(Get(annotation, "upstream_file")) = 1
    /\ Len(Get(annotation, "downstream_file")) = 1
    /\ Len(Get(annotation, "index")) = 1
    /\ Len(Get(annotation, "non_fastq_files")) >= 1

(***************************************************************************)
(* C19. Once annotate_paths has dropped the duplicates, no two of the      *)
(* paths it goes on with resolve to the same absolute path: two spellings  *)
(* of one file are one entry.                                              *)
(***************************************************************************)
C19_OneEntryPerResolvedPath ==
    pc # "start" =>
        \A i, j \in 1..Len(paths) :
            i # j => resolve(paths[i]) # resolve(paths[j])

\* what annotate_paths makes of a list without repeats: the exception it
\* raises, or the bag it returns
AnnotationOf(l) ==
    LET f == filter_non_fastq_files(l, EmptyAnnotation)
    IN  IF no_fastq_file(f[1])
        THEN [raised |-> NoFastqFound, annotation |-> EmptyAnnotation]
        ELSE LET i == filter_index_fastq_files(f[1].list, f[2])
                 r == pair_strands(i[1], i[2])
             IN  IF r.raised # NoException
                 THEN [raised |-> r.raised, annotation |-> EmptyAnnotation]
                 ELSE r
\* a list of the elements of S in ascending order, by insertion
RECURSIVE Ascending(_)
Ascending(S) ==
    IF S = {} THEN <<>>
    ELSE LET x == CHOOSE y \in S : \A z \in S \ {y} : PathLess(y, z)
         IN  <<x>> \o Ascending(S \ {x})

(***************************************************************************)
(* C20. What annotate_paths makes of a list depends on the set of its      *)
(* elements alone: whatever the order of the list, the repeats in it and   *)
(* the order in which the duplicates are dropped, it raises the error or   *)
(* returns the bag, with the same order in each category, that it makes    *)
(* of the same set given in ascending order without repeats.               *)
(***************************************************************************)
C20_AnnotationDependsOnTheSetAlone ==
    LET expected == AnnotationOf(Ascending(InputSet))
    IN  /\ pc = "as_dataframe" =>
              /\ expected.raised = NoException
              /\ annotation = expected.annotation
        /\ pc = "raised" => raised = expected.raised

\* a bag of two sorted reads was returned for a list that gave them in the
\* other order and one of them twice
C20_Witness ==
    /\ pc = "as_dataframe"
    /\ Len(file_list) = 3
    /\ Cardinality(InputSet) = 2
    /\ file_list # FirstOccurrences(file_list)
    /\ paths # Ascending(InputSet)
    /\ Len(annotation["upstream_file"]) = 2

\* the index files of the run are as many as the reads, or half as many
OneIndexPerRead ==
    /\ IndexOf(InputSet) # {}
    /\ Cardinality(IndexOf(InputSet)) = Cardinality(ReadsOf(InputSet))
OneIndexPerPair ==
    /\ IndexOf(InputSet) # {}
    /\ 2 * Cardinality(IndexOf(InputSet)) = Cardinality(ReadsOf(InputSet))
StrandDetections == {"detect_R1_strand", "detect_R2_strand"}

(***************************************************************************)
(* C21. When the index files are as many as the reads, or half as many,    *)
(* the separation of the index files is the last word: no strand           *)
(* detection is ever called, the step after it leaves the bag as the       *)
(* separation made it and returns it, with index and upstream_file, and,   *)
(* when the index files are as many as the reads, no downstream_file.      *)
(***************************************************************************)
C21_IndexBranchesAreTerminal ==
    [][(OneIndexPerRead \/ OneIndexPerPair) =>
          /\ Range(called') \cap StrandDetections = {}
          /\ pc = "pairing" =>
                /\ pc' = "as_dataframe"
                /\ annotation' = annotation
                /\ {"index", "upstream_file"} \subseteq DOMAIN annotation'
                /\ OneIndexPerRead => "downstream_file" \notin DOMAIN annotation'
                /\ OneIndexPerPair => "downstream_file" \in DOMAIN annotation']_vars

\* a verbose call returned the bag of one read and its index file, without
\* downstream_file and without a strand detection
C21_Witness ==
    /\ pc = "as_dataframe"
    /\ verbose
    /\ OneIndexPerRead
    /\ Len(annotation["upstream_file"]) = 1
    /\ Len(annotation["index"]) = 1
    /\ "downstream_file" \notin DOMAIN annotation
    /\ called = <<"detect_fastq", "detect_index">>

\* the reads that enter strand pairing, and among them the files of the first
\* strand, the files of the second strand among the others, and the rest
Entering == IF Truthy(fastq_read_sequences) THEN Range(fastq_read_sequences.list) ELSE {}
UpstreamOf(S) == {p \in S : search(R1Regex, resolve(p))}
DownstreamOf(S) == {p \in S \ UpstreamOf(S) : search(R2Regex, resolve(p))}
LeftoverOf(S) == (S \ UpstreamOf(S)) \ DownstreamOf(S)

(***************************************************************************)
(* C22. When strand pairing finds as many files of the first strand as of  *)
(* the second, every read that entered it is in the bag exactly once:      *)
(* upstream_file is the sorted list of the files of the first strand and   *)
(* of the files of neither strand, downstream_file is the sorted list of   *)
(* the files of the second strand, and no file is in both.                 *)
(***************************************************************************)
C22_EqualStrandsKeepEveryRead ==
    [][(/\ pc = "pairing"
        /\ Entering # {}
        /\ Cardinality(UpstreamOf(Entering)) = Cardinality(DownstreamOf(Entering))) =>
          LET up == Get(annotation', "upstream_file")
              down == Get(annotation', "downstream_file")
          IN  /\ pc' = "as_dataframe"
              /\ up = SortedList(UpstreamOf(Entering) \cup LeftoverOf(Entering))
              /\ down = SortedList(DownstreamOf(Entering))
              /\ Range(up) \cap Range(down) = {}
              /\ \A p \in Entering : Count(up, p) + Count(down, p) = 1
              /\ Range(up) \cup Range(down) = Entering]_vars

\* two pairs and a file of neither strand were returned, the latter upstream
C22_Witness ==
    /\ pc = "as_dataframe"
    /\ Cardinality(UpstreamOf(Entering)) = 2
    /\ Cardinality(DownstreamOf(Entering)) = 2
    /\ Cardinality(LeftoverOf(Entering)) = 1
    /\ Len(annotation["upstream_file"]) = 3
    /\ Len(annotation["downstream_file"]) = 2

(***************************************************************************)
(* C23. When strand pairing finds a number of files of the first strand    *)
(* that differs from the number of files of the second, upstream_file is   *)
(* the sorted list of all the reads that entered it and the bag has no     *)
(* downstream_file.                                                        *)
(***************************************************************************)
C23_UnequalStrandsAreSingleEnded ==
    [][(/\ pc = "pairing"
        /\ Entering # {}
        /\ Cardinality(UpstreamOf(Entering)) # Cardinality(DownstreamOf(Entering))) =>
          /\ pc' = "as_dataframe"
          /\ annotation'["upstream_file"] = SortedList(Entering)
          /\ "downstream_file" \notin DOMAIN annotation']_vars

\* two files of the first strand, one of the second and one of neither were
\* all returned upstream, without downstream_file
C23_Witness ==
    /\ pc = "as_dataframe"
    /\ Cardinality(UpstreamOf(Entering)) = 2
    /\ Cardinality(DownstreamOf(Entering)) = 1
    /\ Cardinality(LeftoverOf(Entering)) = 1
    /\ Len(annotation["upstream_file"]) = 4
    /\ "downstream_file" \notin DOMAIN annotation

(***************************************************************************)
(* C24. Whenever the bag annotate_paths returns has files in               *)
(* downstream_file, upstream_file and downstream_file are aligned: they    *)
(* have the same length and each position holds the <P>_R1 file and the    *)
(* <P>_R2 file of one sample, also when files without a strand marker      *)
(* were put in upstream_file.                                              *)
(***************************************************************************)
C24_PairsAreAlignedByPosition ==
    (pc = "as_dataframe" /\ Get(annotation, "downstream_file") # <<>>) =>
        LET up == Get(annotation, "upstream_file")
            down == annotation["downstream_file"]
        IN  /\ Len(up) = Len(down)
            /\ \A i \in 1..Len(down) : Mates(up[i], down[i])

(***************************************************************************)
(* C25. Whatever the name, what remove_common_suffixes returns neither     *)
(* starts nor ends with "_" or ".": the leading and the trailing "_" and   *)
(* "." are all trimmed, in any mixture ("._a", "a_.").                     *)
(***************************************************************************)
C25_NoSeparatorAtTheEnds ==
    Len(name_out) >= 1 =>
        LET result == name_out[1]
        IN  result # <<>> =>
                /\ result[1] \notin {"_", "."}
                /\ result[Len(result)] \notin {"_", "."}

\* there are index files, neither as many as the reads nor half as many
AmbiguousRatio == IndexOf(InputSet) # {} /\ ~OneIndexPerRead /\ ~OneIndexPerPair

(***************************************************************************)
(* C26. In every call, verbose or not, where the index files are neither   *)
(* as many as the reads nor half as many, the warning of the ambiguous     *)
(* ratio is on the console when strand pairing starts, and the call goes   *)
(* on: it does not end on an error.                                        *)
(***************************************************************************)
C26_AmbiguousRatioIsReported ==
    AmbiguousRatio =>
        /\ pc \in {"pairing", "as_dataframe"} => AmbiguousIndexRatio \in Range(console)
        /\ (pc = "raised" /\ raised \in {NoFastqFound, NoUpstreamFile}) => FALSE

\* main has not come to the writing of the table yet
BeforeWrite ==
    pc \in {"search_files_locally", "search_files_on_iRODS", "start", "filter_non_fastq",
            "filter_index", "pairing", "as_dataframe"}

(***************************************************************************)
(* C27. When main stops on an error of annotate_paths or of as_dataframe,  *)
(* the output file is neither created nor modified and its directory is    *)
(* not created: no step before the writing of the table touches the disk,  *)
(* no step that raises or follows an error does, and the writing itself    *)
(* raises nothing.                                                         *)
(***************************************************************************)
C27_NothingWrittenOnError ==
    [][/\ BeforeWrite => disk' = disk
       /\ raised' # NoException => disk' = disk
       /\ pc' = "exit" => (BeforeWrite /\ raised' # NoException /\ exit_status' # 0)
       /\ pc = "write" => raised' = NoException]_vars

\* a forced run on a directory to create ended on the error of as_dataframe,
\* with nothing on the disk
C27_Witness ==
    /\ pc = "exit"
    /\ force
    /\ disk = FreshDisk
    /\ raised = ArraysLength

(***************************************************************************)
(* C28. For every input with a fastq file at least, annotate_paths         *)
(* returns a bag that has upstream_file, with a file at least: it does     *)
(* not end on the error of the missing fastq files nor on the error of     *)
(* the missing upstream file; and that last error is raised in no state    *)
(* where the bag has upstream_file.                                        *)
(***************************************************************************)
C28_UpstreamFileIsNeverMissing ==
    /\ ((raised \in {NoFastqFound, NoUpstreamFile} \/ Returned)
            /\ FastqOf(InputSet) # {}) =>
          /\ raised \notin {NoFastqFound, NoUpstreamFile}
          /\ Returned =>
                /\ "upstream_file" \in DOMAIN annotation
                /\ annotation["upstream_file"] # <<>>
    /\ raised = NoUpstreamFile => "upstream_file" \notin DOMAIN annotation

\* a single fastq file, an index file, was returned as the upstream file
C28_Witness ==
    /\ pc = "as_dataframe"
    /\ Cardinality(FastqOf(InputSet)) = 1
    /\ IndexOf(InputSet) = FastqOf(InputSet)
    /\ annotation["upstream_file"] = SortedList(FastqOf(InputSet))

\* the run was started in a working directory without config/samples.csv and
\* without config/genomes.csv: nothing there is the user's
StartedWithoutCsv ==
    /\ workdir[samples_csv] # "user"
    /\ workdir[genomes_csv] # "user"

(***************************************************************************)
(* C29. In a run of deploy_fair_fastqc_multiqc started in a working        *)
(* directory without config/samples.csv and without config/genomes.csv, no *)
(* sub-step ends on an error for a file of the working directory that is   *)
(* missing: project_config and project_sbatch, the sub-steps that check     *)
(* files of the working directory, ended with status 0 whenever they ran   *)
(* (project_deploy and project_genomes end on an error only when the       *)
(* remote does not answer or a reference file of the cluster is missing,   *)
(* and project_tree, which is none of the four, on the words of its        *)
(* command line).                                                          *)
(***************************************************************************)
C29_SubStepsFindTheirFiles ==
    (entry = "deploy_fair_fastqc_multiqc" /\ StartedWithoutCsv)
        => \A i \in DOMAIN shell :
              shell[i].script \in {"project_config.py", "project_sbatch.py"}
                  => shell[i].status = 0

(***************************************************************************)
(* C30. A run of create_config that ends well has written config.yaml if   *)
(* the file was missing or --force was given, and has left the file as it  *)
(* was otherwise.                                                          *)
(***************************************************************************)
C30_ConfigWrittenWhenMissingOrForced ==
    [][(pc = "create_config" /\ entry = "create_config" /\ pc' = "done")
          => IF force \/ ~Exists(workdir, config_yaml)
             THEN workdir'[config_yaml] = "project_config"
             ELSE workdir'[config_yaml] = workdir[config_yaml]]_vars

=============================================================================
